---- MODULE Spec2Model ----
(***************************************************************************)
(* virtualization-apis: the api-virtual mock server (resource loading, hot *)
(* reload, route dispatch) and the shell-virtual CLI (postgres and         *)
(* opensearch commands), modelled as state machines.  Each subsystem has   *)
(* its own specification over the shared variable list; a specification    *)
(* leaves the variables of the other subsystems at their idle values.      *)
(***************************************************************************)
EXTENDS Integers, Sequences, FiniteSets, TLC

VARIABLES
    \* ---- api-virtual server (index.ts)
    disk,                      \* the resources root on disk
    clock,                     \* file-system time, advanced by every write
    HOT_RELOAD_ENABLED,        \* env, fixed at start-up
    VIRTUAL_APIS,              \* env allowlist after parseCsvEnv
    VIRTUAL_APIS_EXCLUDE,      \* env denylist after parseCsvEnv
    currentState,              \* { sharedResources, apis, router }
    currentRouter,             \* the router requests are dispatched to
    lastResourcesFingerprint,  \* fingerprint the watcher compares against
    srvPc,                     \* position of the single JS thread
    reloadResponse,            \* body of the last POST /virtual/reload answer
    reloadAudit,               \* history: what the last POST /virtual/reload saw
    handlerCache,              \* handler ids loadHandler has cached
    rqPending,                 \* requests whose route callback is waiting at an await
    rqLog,                     \* requests answered, in order
    \* ---- loading one API directory (loadVirtualApis / loadHandlersBundle)
    apiDir,                    \* the API directory given to the loader
    apiLoad,                   \* what loading it produced
    apiLoadPc,                 \* "input" | "loaded"
    \* ---- one request to a registered route (buildApiRouter's route callback)
    rtRoute,                   \* the HandlerDefinition the route was registered from
    rtHandlerFn,               \* what the handler module named by route.handler does
    rtContext,                 \* the request context: params, query, body, resources, meta
    rtPc,                      \* "received" | "sleeping" | "replied"
    rtWaited,                  \* ms the callback waited in setTimeout before replying
    rtReply,                   \* the response sent
    rtWrites,                  \* responses written for the request, in order, and by whom
    \* ---- shell-virtual: resolving the Postgres connection of a command
    pgCommand,                 \* "create-db" | "drop-db" | "seed" | "seed-yaml"
    pgFlags,                   \* the flags written on the command line
    pgName,                    \* <name> argument, or the --db value in effect
    pgConfigEnv,               \* the selected environment of virt.config.yaml
    pgProcessEnv,              \* process.env
    pgRuntime,                 \* the PostgresRuntime resolved
    pgPc,                      \* "parsed" | "resolved"
    \* ---- shell-virtual: postgres seed-yaml
    sdSeed,                    \* the seed file as YAML.parse returns it
    sdDb,                      \* options.db (commander default 'postgres')
    sdFlags,                   \* the flags written on the command line
    sdConfigEnv,               \* the selected environment of virt.config.yaml
    sdCursor,                  \* the step of applyYamlSeed the command is at
    sdBound,                   \* values resolveSeedRow has resolved for the pending statement
    sdLog,                     \* subprocesses spawned, in order, with their exit codes
    sdExitCode,                \* process.exitCode (0: never set)
    sdError,                   \* message of the error caught by the action
    sdPc,                      \* "running" | "waiting" | "done" | "failed"
    \* ---- shell-virtual: postgres create-db / drop-db
    dbCommand,                 \* "create-db" | "drop-db"
    dbOptions,                 \* [drop, yes, schemaFile, schemaDir] as commander gives them
    dbConfigEnv,               \* the selected environment of virt.config.yaml
    dbExists,                  \* whether the server holds the database <name>
    dbRuntime,                 \* the PostgresRuntime the action resolved
    dbAttempt,                 \* i of the readiness loop
    dbSchemaFiles,             \* schema files applySchemaFiles has still to apply
    dbLog,                     \* subprocesses spawned, in order, with their exit codes
    dbExitCode,                \* process.exitCode (0: never set)
    dbError,                   \* message of the error caught by the action
    dbPc,                      \* where the action is
    \* ---- shell-virtual: opensearch delete / delete-all
    osCommand,                 \* "delete" | "delete-all"
    osYes,                     \* options.yes
    osEndpoint,                \* --endpoint as written on the command line
    osConfigUrl,               \* opensearch.url of the selected environment
    osAnswer,                  \* the line typed at the prompt
    osRequests,                \* HTTP requests sent
    osOutput,                  \* lines printed
    osExitCode,                \* process.exitCode (0: never set)
    osPc,                      \* "start" | "asking" | "requesting" | "done" | "failed"
    \* ---- shell-virtual: selecting the environment of a command (index.ts, config.ts)
    evArgv,                    \* --env as written on the command line
    VIRT_ENV,                  \* process.env.VIRT_ENV
    evDisk,                    \* the config file in the current directory
    cachedConfig,              \* config.ts module variable
    evOpts,                    \* opts.env as commander gives it
    evNames,                   \* envName of every resolveEnvironment call, in order
    evPc,                      \* "argv" | "parsed" | "action" | "done"
    \* ---- shell-virtual: opensearch load / seed-operations
    blCommand,                 \* "load" | "seed-operations"
    blFile,                    \* the file named on the command line, or the bulk file
    blOptions,                 \* the flags written on the command line, and opensearch.url
                               \* of the selected environment
    blServer,                  \* the OpenSearch server: answering or not, index present or not
    blClock,                   \* Date.now() - start, in seconds
    blRequests,                \* HTTP requests sent, in order
    blOutput,                  \* what console.info printed
    blError,                   \* message of the error caught by the action
    blExitCode,                \* process.exitCode (0: never set)
    blPc,                      \* where the action is
    \* ---- applySeedVariables on one seed row
    svInput,                   \* the variable named by the row's placeholders, and the text
                               \* around them
    svVariables,               \* the `variables` mapping
    svApplied,                 \* the row after applySeedVariables
    svPc                       \* "read" | "applied"

serverVars == <<disk, clock, HOT_RELOAD_ENABLED, VIRTUAL_APIS, VIRTUAL_APIS_EXCLUDE,
                currentState, currentRouter, lastResourcesFingerprint, srvPc,
                reloadResponse, reloadAudit, handlerCache, rqPending, rqLog>>

loaderVars == <<apiDir, apiLoad, apiLoadPc>>

routeVars == <<rtRoute, rtHandlerFn, rtContext, rtPc, rtWaited, rtReply, rtWrites>>

runtimeVars == <<pgCommand, pgFlags, pgName, pgConfigEnv, pgProcessEnv, pgRuntime, pgPc>>

seedVars == <<sdSeed, sdDb, sdFlags, sdConfigEnv, sdCursor, sdBound, sdLog, sdExitCode,
              sdError, sdPc>>

dbVars == <<dbCommand, dbOptions, dbConfigEnv, dbExists, dbRuntime, dbAttempt, dbSchemaFiles, dbLog,
            dbExitCode, dbError, dbPc>>

osVars == <<osCommand, osYes, osEndpoint, osConfigUrl, osAnswer, osRequests, osOutput,
            osExitCode, osPc>>

envVars == <<evArgv, VIRT_ENV, evDisk, cachedConfig, evOpts, evNames, evPc>>

bulkVars == <<blCommand, blFile, blOptions, blServer, blClock, blRequests, blOutput, blError,
              blExitCode, blPc>>

interpVars == <<svInput, svVariables, svApplied, svPc>>

cliVars == <<runtimeVars, seedVars, dbVars, osVars, envVars, bulkVars, interpVars>>

vars == <<serverVars, loaderVars, routeVars, cliVars>>

----------------------------------------------------------------------------
(* Bounds *)
MaxWrites == 2          \* number of external file writes in one run
MaxExtras == 2          \* number of files in one handlers/ directory

----------------------------------------------------------------------------
(* Values *)
Undef == "undefined"    \* JS undefined for string-valued fields
NoNum == 0 - 1          \* JS undefined for number-valued fields

RECURSIVE SeqToSet(_)
SeqToSet(s) == IF s = <<>> THEN {} ELSE {Head(s)} \cup SeqToSet(Tail(s))

\* a ?? b on string-valued fields
Coalesce(a, b) == IF a # Undef THEN a ELSE b

----------------------------------------------------------------------------
(* shell-virtual: Postgres connection settings *)

\* a PostgresConfig of virt.config.yaml after coercePostgresConfig; Undef / NoNum
\* stand for fields the file does not give
NoPgConfig ==
    [defined |-> FALSE, mode |-> Undef, service |-> Undef, user |-> Undef,
     password |-> Undef, host |-> Undef, port |-> NoNum, adminDb |-> Undef,
     composeDir |-> Undef, ssl |-> Undef]

NoFlags ==
    [service |-> Undef, user |-> Undef, adminDb |-> Undef, composeDir |-> Undef,
     target |-> Undef]

NoProcessEnv ==
    [POSTGRES_SERVICE |-> Undef, POSTGRES_USER |-> Undef, POSTGRES_ADMIN_DB |-> Undef,
     COMPOSE_DIR |-> Undef, PG_MODE |-> Undef, POSTGRES_MODE |-> Undef,
     POSTGRES_PASSWORD |-> Undef, PG_PASSWORD |-> Undef, POSTGRES_HOST |-> Undef,
     PG_HOST |-> Undef, POSTGRES_PORT |-> Undef, PG_PORT |-> Undef, POSTGRES_SSL |-> Undef]

NoRuntime ==
    [mode |-> "compose", service |-> Undef, user |-> Undef, password |-> Undef,
     host |-> Undef, port |-> NoNum, adminDb |-> Undef, composeDir |-> Undef, ssl |-> Undef]

\* the names `databases` of the environment can hold
DbTargetNames == {"api_wallet", "api_affiliations"}

NoConfigEnv == [postgres |-> NoPgConfig, databases |-> [n \in DbTargetNames |-> NoPgConfig]]

\* the resolver's variables while another subsystem runs
RuntimeIdle ==
    /\ pgCommand = "none"
    /\ pgFlags = NoFlags
    /\ pgName = Undef
    /\ pgConfigEnv = NoConfigEnv
    /\ pgProcessEnv = NoProcessEnv
    /\ pgRuntime = NoRuntime
    /\ pgPc = "off"

\* a seed file that holds no document (YAML.parse gives null)
NullSeed ==
    [isNull |-> TRUE, variables |-> <<>>, tables |-> <<>>, operations |-> <<>>,
     databases |-> <<>>]

\* the seed command's variables while another subsystem runs
SeedIdle ==
    /\ sdSeed = NullSeed
    /\ sdDb = Undef
    /\ sdFlags = NoFlags
    /\ sdConfigEnv = NoConfigEnv
    /\ sdCursor = 0
    /\ sdBound = <<>>
    /\ sdLog = <<>>
    /\ sdExitCode = 0
    /\ sdError = Undef
    /\ sdPc = "off"

\* the create-db / drop-db variables while another subsystem runs
DbIdle ==
    /\ dbCommand = "none"
    /\ dbOptions = [drop |-> FALSE, yes |-> FALSE, schemaFile |-> Undef, schemaDir |-> Undef]
    /\ dbSchemaFiles = <<>>
    /\ dbConfigEnv = NoConfigEnv
    /\ dbExists = FALSE
    /\ dbRuntime = NoRuntime
    /\ dbAttempt = 0
    /\ dbLog = <<>>
    /\ dbExitCode = 0
    /\ dbError = Undef
    /\ dbPc = "off"

\* the opensearch delete variables while another subsystem runs
OsIdle ==
    /\ osCommand = "none"
    /\ osYes = FALSE
    /\ osEndpoint = Undef
    /\ osConfigUrl = Undef
    /\ osAnswer = Undef
    /\ osRequests = <<>>
    /\ osOutput = <<>>
    /\ osExitCode = 0
    /\ osPc = "off"

\* a config file as parseYaml returns it: null, or a mapping with its `default` and
\* the entries of `environments` in the order the document writes them
NullConfig == [isNull |-> TRUE, default |-> Undef, environments |-> <<>>]
Unread == [isNull |-> FALSE, default |-> "unread", environments |-> <<>>]

\* the environment-selection variables while another subsystem runs
EnvIdle ==
    /\ evArgv = Undef
    /\ VIRT_ENV = Undef
    /\ evDisk = NullConfig
    /\ cachedConfig = Unread
    /\ evOpts = Undef
    /\ evNames = <<>>
    /\ evPc = "off"

NoBulkFile == [ext |-> Undef, kind |-> "absent", lines |-> <<>>, isArray |-> FALSE, docs |-> <<>>]
NoBulkOptions == [endpoint |-> Undef, configUrl |-> Undef, index |-> Undef, dryRun |-> FALSE,
                  reset |-> FALSE, waitSeconds |-> NoNum]
NoBulkServer == [up |-> FALSE, index |-> FALSE]

\* the opensearch load / seed-operations variables while another subsystem runs
BulkIdle ==
    /\ blCommand = "none"
    /\ blFile = NoBulkFile
    /\ blOptions = NoBulkOptions
    /\ blServer = NoBulkServer
    /\ blClock = 0
    /\ blRequests = <<>>
    /\ blOutput = <<>>
    /\ blError = Undef
    /\ blExitCode = 0
    /\ blPc = "off"

NoInterpInput == [name |-> Undef, pre |-> "", post |-> ""]

\* the seed-variable variables while another subsystem runs
InterpIdle ==
    /\ svInput = NoInterpInput
    /\ svVariables = <<>>
    /\ svApplied = <<>>
    /\ svPc = "off"

----------------------------------------------------------------------------
(* Documents a YAML file can hold.  kind: "absent" (no such file),         *)
(* "invalid" (parseYaml throws), "empty" (parseYaml returns null: an empty *)
(* or comment-only file), "doc" (a mapping).                               *)

NoApi == [present |-> FALSE, name |-> Undef, basePath |-> Undef, description |-> Undef]
ApiBlock(n, b, d) == [present |-> TRUE, name |-> n, basePath |-> b, description |-> d]

\* JSON values: t is "undef", "null", "str", "num", "arr" or "obj".  A string is a
\* sequence of parts, literal text or a {{...}} placeholder.
JUndef == [t |-> "undef"]
JNull == [t |-> "null"]
JNum(n) == [t |-> "num", n |-> n]
JStr(parts) == [t |-> "str", parts |-> parts]
JText(x) == [t |-> "str", parts |-> <<[lit |-> TRUE, text |-> x]>>]
JArr(items) == [t |-> "arr", items |-> items]
JObj(entries) == [t |-> "obj", entries |-> entries]
Lit(x) == [lit |-> TRUE, text |-> x]
\* {{<spaces?>path<spaces?>}}: the dotted path and the white space around it
Tok(path, lead, trail) == [lit |-> FALSE, path |-> path, lead |-> lead, trail |-> trail]

NoResponse == [defined |-> FALSE, status |-> NoNum, headers |-> {}, body |-> JUndef,
               bodyTemplate |-> JUndef, delayMs |-> NoNum]

Route(m, p) == [method |-> m, path |-> p, handler |-> Undef, response |-> NoResponse]

NoHandlersDoc == [api |-> NoApi, hasRoutes |-> FALSE, routes |-> <<>>]
NoOpenApiDoc == [title |-> Undef, serverUrl |-> Undef, description |-> Undef]
NoConfigDoc == [hasResources |-> FALSE, resources |-> <<>>]

File(k, sz, d) == [kind |-> k, size |-> sz, mtime |-> 0, doc |-> d]

AbsentHandlers == File("absent", 0, NoHandlersDoc)
AbsentOpenApi == File("absent", 0, NoOpenApiDoc)
AbsentConfig == File("absent", 0, NoConfigDoc)

Exists(f) == f.kind # "absent"

\* parseYamlFile: throws on unreadable or malformed YAML
ParseThrows(f) == f.kind = "invalid"
\* parseYaml of an empty document is null
ParsedNull(f) == f.kind = "empty"

----------------------------------------------------------------------------
(* Layout of the resources root:                                           *)
(*   config.yaml, apis/<dir>/openapi.yaml, apis/<dir>/handlers.yaml|yml,   *)
(*   apis/<dir>/handlers/<name>                                            *)

\* fs.readdirSync(apisDir) order of the API directories
ApiDirOrder == <<"api-data", "api-wallet">>
ApiDirNames == SeqToSet(ApiDirOrder)

Dir(ex, oa, hy, hm, xs) ==
    [exists |-> ex, openapi |-> oa, handlersYaml |-> hy, handlersYml |-> hm, extras |-> xs]

\* String.prototype.toLowerCase on the method names the model uses
toLowerCase(m) ==
    CASE m = "GET" -> "get"
      [] m = "Y" -> "y"
      [] m = "YES" -> "yes"
      [] m = "N" -> "n"
      [] m = "Post" -> "post"
      [] m = "DELETE" -> "delete"
      [] m = ".JSON" -> ".json"
      [] m = ".NDJSON" -> ".ndjson"
      [] OTHER -> m

\* file.endsWith('.yaml') || file.endsWith('.yml') on the file names the model uses
IsYamlName(n) == n \in {"a.yaml", "b.yml", "c.yaml"}

\* a.localeCompare(b) on the file names the model uses
NameRank(n) ==
    CASE n = "a.yaml" -> 1
      [] n = "b.yml" -> 2
      [] n = "c.yaml" -> 3
      [] OTHER -> 4
localeCompare(a, b) == NameRank(a) - NameRank(b)

RECURSIVE FlattenRoutes(_)
\* extraRoutes.push(...parsed.routes) over the files in order
FlattenRoutes(files) ==
    IF files = <<>> THEN <<>>
    ELSE LET d == Head(files).file.doc
         IN (IF d.hasRoutes /\ Len(d.routes) > 0 THEN d.routes ELSE <<>>)
            \o FlattenRoutes(Tail(files))

\* resolveFirstExisting(apiDir, ['handlers.yaml', 'handlers.yml'])
HandlersPath(dir) ==
    IF Exists(dir.handlersYaml) THEN "handlers.yaml"
    ELSE IF Exists(dir.handlersYml) THEN "handlers.yml"
    ELSE Undef

PrimaryFile(dir) ==
    IF Exists(dir.handlersYaml) THEN dir.handlersYaml ELSE dir.handlersYml

\* the handlers/ listing: filter by extension, then sort by localeCompare
SortedExtras(dir) ==
    SortSeq(SelectSeq(dir.extras, LAMBDA e : IsYamlName(e.name)),
            LAMBDA a, b : localeCompare(a.name, b.name) < 0)

BundleFail(err) ==
    [ok |-> FALSE, error |-> err, api |-> NoApi, routes |-> <<>>,
     sources |-> [primary |-> Undef, extras |-> <<>>]]


\* api: handlersFile?.api
BundleApi(dir) ==
    IF HandlersPath(dir) = Undef \/ ParsedNull(PrimaryFile(dir)) THEN NoApi
    ELSE PrimaryFile(dir).doc.api

loadHandlersBundle(dir) ==
    LET handlersPath == HandlersPath(dir)
        primary == PrimaryFile(dir)
        files == SortedExtras(dir)
        extraRoutes == FlattenRoutes(files)
        primaryRoutes ==
            IF handlersPath = Undef \/ ParsedNull(primary) \/ ~primary.doc.hasRoutes
            THEN <<>> ELSE primary.doc.routes
    IN IF handlersPath # Undef /\ ParseThrows(primary) THEN BundleFail("yaml")
       ELSE IF \E i \in 1..Len(files) : ParseThrows(files[i].file) THEN BundleFail("yaml")
       \* parsed.api on a null document: TypeError
       ELSE IF \E i \in 1..Len(files) : ParsedNull(files[i].file) THEN BundleFail("type")
       ELSE IF handlersPath = Undef /\ extraRoutes = <<>> THEN BundleFail("missing-handlers")
       ELSE [ok |-> TRUE, error |-> Undef, api |-> BundleApi(dir),
             routes |-> primaryRoutes \o extraRoutes,
             sources |-> [primary |-> handlersPath,
                          extras |-> [i \in 1..Len(files) |-> files[i].name]]]

resolveBasePath(apiId, explicitBasePath, openApi) ==
    IF explicitBasePath # Undef /\ explicitBasePath # "" THEN explicitBasePath
    ELSE IF openApi.serverUrl # Undef /\ openApi.serverUrl # "" THEN openApi.serverUrl
    ELSE "/" \o apiId

normalizeHandlers(routes) ==
    [i \in 1..Len(routes) |-> [routes[i] EXCEPT !.method = toLowerCase(routes[i].method)]]

NoVirtualApi ==
    [id |-> Undef, name |-> Undef, description |-> Undef, basePath |-> Undef, handlers |-> <<>>]

\* the body of entries.map(...) in loadVirtualApis, for one API directory
LoadApi(apiId, dir) ==
    LET openApi == IF ParsedNull(dir.openapi) THEN NoOpenApiDoc ELSE dir.openapi.doc
        bundle == loadHandlersBundle(dir)
    IN IF ~Exists(dir.openapi) THEN [ok |-> FALSE, error |-> "missing-openapi", api |-> NoVirtualApi]
       ELSE IF ParseThrows(dir.openapi) THEN [ok |-> FALSE, error |-> "yaml", api |-> NoVirtualApi]
       ELSE IF ~bundle.ok THEN [ok |-> FALSE, error |-> bundle.error, api |-> NoVirtualApi]
       ELSE [ok |-> TRUE, error |-> Undef,
             api |-> [id |-> apiId,
                      name |-> Coalesce(bundle.api.name,
                                        Coalesce(openApi.title, "Virtual API " \o apiId)),
                      description |-> Coalesce(bundle.api.description, openApi.description),
                      basePath |-> resolveBasePath(apiId, bundle.api.basePath, openApi),
                      handlers |-> normalizeHandlers(bundle.routes)]]

\* faulty variant: the denylist is not applied
FilterEntriesNoDeny(entries, allow, deny) ==
    IF Len(allow) > 0 THEN SelectSeq(entries, LAMBDA e : e \in SeqToSet(allow)) ELSE entries

\* the allowlist / denylist filters of loadVirtualApis
FilterEntries(entries, allow, deny) ==
    LET allowed == IF Len(allow) > 0
                   THEN SelectSeq(entries, LAMBDA e : e \in SeqToSet(allow))
                   ELSE entries
    IN IF Len(deny) > 0
       THEN SelectSeq(allowed, LAMBDA e : e \notin SeqToSet(deny))
       ELSE allowed

loadVirtualApis(d, allow, deny) ==
    LET dirents == SelectSeq(ApiDirOrder, LAMBDA n : d.dirs[n].exists)
        entries == FilterEntries(dirents, allow, deny)
        loaded == [i \in 1..Len(entries) |-> LoadApi(entries[i], d.dirs[entries[i]])]
    IN IF ~d.hasApisDir THEN [ok |-> TRUE, apis |-> <<>>]
       ELSE IF \E i \in 1..Len(entries) : ~loaded[i].ok THEN [ok |-> FALSE, apis |-> <<>>]
       ELSE [ok |-> TRUE, apis |-> [i \in 1..Len(entries) |-> loaded[i].api]]

loadResourcesConfig(d) ==
    IF ~Exists(d.config) THEN [ok |-> TRUE, config |-> NoConfigDoc]
    ELSE IF ParseThrows(d.config) THEN [ok |-> FALSE, config |-> NoConfigDoc]
    \* parsed.resources on a null document: TypeError
    ELSE IF ParsedNull(d.config) THEN [ok |-> FALSE, config |-> NoConfigDoc]
    ELSE [ok |-> TRUE, config |-> d.config.doc]

\* Object.keys(sharedResources.resources ?? {})
ResourceKeys(cfg) == IF cfg.hasResources THEN cfg.resources ELSE <<>>

\* router.use(api.basePath, buildApiRouter(api, sharedResources)) for each API
buildApisRouter(apis, sharedResources) ==
    [i \in 1..Len(apis) |->
        [basePath |-> apis[i].basePath, apiId |-> apis[i].id,
         handlers |-> apis[i].handlers, resources |-> ResourceKeys(sharedResources)]]

EmptyAppState == [sharedResources |-> NoConfigDoc, apis |-> <<>>, router |-> <<>>]

buildAppState(d, allow, deny) ==
    LET shared == loadResourcesConfig(d)
        apis == loadVirtualApis(d, allow, deny)
    IN IF ~shared.ok \/ ~apis.ok THEN [ok |-> FALSE, state |-> EmptyAppState]
       ELSE [ok |-> TRUE,
             state |-> [sharedResources |-> shared.config, apis |-> apis.apis,
                        router |-> buildApisRouter(apis.apis, shared.config)]]

\* collectYamlFiles(root) with each file's stat: the set of path:mtime:size items
collectYamlFiles(d) ==
    (IF Exists(d.config) THEN {<<"config.yaml", d.config>>} ELSE {})
    \cup UNION { IF d.hasApisDir /\ d.dirs[n].exists
                 THEN (IF Exists(d.dirs[n].openapi)
                       THEN {<<n \o "/openapi.yaml", d.dirs[n].openapi>>} ELSE {})
                      \cup (IF Exists(d.dirs[n].handlersYaml)
                            THEN {<<n \o "/handlers.yaml", d.dirs[n].handlersYaml>>} ELSE {})
                      \cup (IF Exists(d.dirs[n].handlersYml)
                            THEN {<<n \o "/handlers.yml", d.dirs[n].handlersYml>>} ELSE {})
                      \cup { <<n \o "/handlers/" \o d.dirs[n].extras[i].name,
                               d.dirs[n].extras[i].file>> :
                             i \in { j \in 1..Len(d.dirs[n].extras) :
                                       IsYamlName(d.dirs[n].extras[j].name) } }
                 ELSE {} : n \in ApiDirNames }

\* the sorted, joined list of `${file}:${mtimeMs}:${size}`; the list is sorted, so it
\* is determined by the set of its items
fingerprintResources(d) ==
    { <<e[1], e[2].mtime, e[2].size>> : e \in collectYamlFiles(d) }

----------------------------------------------------------------------------
(* Environment of the server process *)

\* String.prototype.trim on the list items the model uses
trim(x) ==
    CASE x = " api-data" -> "api-data"
      [] x = "api-wallet " -> "api-wallet"
      [] x = " " -> ""
      [] x = " y " -> "y"
      [] x = "Y " -> "Y"
      [] x = " n" -> "n"
      [] x = "\n" -> ""
      [] x = "42\n" -> "42"
      [] x = " P-1\n" -> "P-1"
      [] x = " dev " -> "dev"
      [] x = "  " -> ""
      [] x = " qa" -> "qa"
      [] OTHER -> x

\* parseCsvEnv on a value already split at the commas (<<>>: unset or empty)
parseCsvEnv(items) ==
    SelectSeq([i \in 1..Len(items) |-> trim(items[i])], LAMBDA x : x # "")

AllowEnvValues == { <<>>, <<" api-data">>, <<"api-data", " ", "api-wallet ">> }
DenyEnvValues == { <<>>, <<"api-data">>, <<" ", "">> }

----------------------------------------------------------------------------
(* File contents the model writes *)

RouteGetItems == Route("GET", "/items")
RoutePostItems == Route("Post", "/items")
RouteGetReport == Route("get", "/reports/netwin")

ConfigDocA == File("doc", 20, [hasResources |-> TRUE, resources |-> <<"postgres">>])
ConfigDocB == File("doc", 20, [hasResources |-> TRUE, resources |-> <<"postgres", "opensearch">>])
ConfigEmpty == File("empty", 0, NoConfigDoc)
ConfigInvalid == File("invalid", 5, NoConfigDoc)

OpenApiDocA == File("doc", 30, [title |-> "Data API", serverUrl |-> "/data", description |-> "d1"])
OpenApiDocB == File("doc", 30, [title |-> Undef, serverUrl |-> Undef, description |-> Undef])
OpenApiInvalid == File("invalid", 5, NoOpenApiDoc)

HandlersDocA ==
    File("doc", 40, [api |-> ApiBlock("Primary", "/primary", "from handlers.yaml"),
                     hasRoutes |-> TRUE, routes |-> <<RouteGetItems>>])
HandlersDocB ==
    File("doc", 40, [api |-> NoApi, hasRoutes |-> TRUE,
                     routes |-> <<RouteGetItems, RoutePostItems>>])
HandlersNoRoutes == File("doc", 8, [api |-> NoApi, hasRoutes |-> FALSE, routes |-> <<>>])
HandlersEmpty == File("empty", 0, NoHandlersDoc)
HandlersInvalid == File("invalid", 5, NoHandlersDoc)
ExtraDocA ==
    File("doc", 40, [api |-> ApiBlock("Extra", "/extra", "from handlers/"),
                     hasRoutes |-> TRUE, routes |-> <<RouteGetReport>>])
ExtraDocB ==
    File("doc", 12, [api |-> NoApi, hasRoutes |-> TRUE, routes |-> <<RoutePostItems>>])

NoDir == Dir(FALSE, AbsentOpenApi, AbsentHandlers, AbsentHandlers, <<>>)

\* the resources tree the server is started on
InitialDisks ==
    { [config |-> c, hasApisDir |-> TRUE,
       dirs |-> [n \in ApiDirNames |->
                   IF n = "api-data"
                   THEN Dir(TRUE, OpenApiDocA, HandlersDocA, AbsentHandlers, <<>>)
                   ELSE w]] :
      c \in {ConfigDocA},
      w \in {NoDir, Dir(TRUE, AbsentOpenApi, AbsentHandlers, AbsentHandlers, <<>>),
             Dir(TRUE, OpenApiDocB, AbsentHandlers, AbsentHandlers,
                 <<[name |-> "a.yaml", file |-> ExtraDocA]>>)} }

\* a file written at time t
Stamp(f, t) == [f EXCEPT !.mtime = IF f.kind = "absent" THEN 0 ELSE t]

\* the writes an editor or deployment can make to the tree: << new tree >>
DiskAfterWrite(d, t) ==
    { [d EXCEPT !.config = Stamp(c, t)] : c \in {ConfigDocB, ConfigInvalid, AbsentConfig} }
    \cup { [d EXCEPT !.dirs[n].openapi = Stamp(f, t)] :
             n \in { m \in ApiDirNames : d.dirs[m].exists }, f \in {OpenApiDocB, AbsentOpenApi} }
    \cup { [d EXCEPT !.dirs[n].handlersYaml = Stamp(f, t)] :
             n \in { m \in ApiDirNames : d.dirs[m].exists }, f \in {HandlersDocB, HandlersInvalid} }
    \cup { [d EXCEPT !.dirs[n] = NoDir] : n \in { m \in ApiDirNames : d.dirs[m].exists } }

----------------------------------------------------------------------------
(* The server process.  Node runs one handler at a time; the file system   *)
(* is shared with other processes, so a write can fall between two reads   *)
(* of one handler.  srvPc:                                                 *)
(*   "boot"      currentState built (line 201), watcher not yet installed  *)
(*   "idle"      listening, no handler running                             *)
(*   "watch_fp"  reloadResources('watch') swapped the state, fingerprint   *)
(*               not yet read                                              *)
(*   "manual_fp" the same inside POST /virtual/reload                      *)

NoReloadResponse == [sent |-> FALSE, reloaded |-> FALSE, apis |-> 0, resources |-> <<>>]

\* res.json({ reloaded, apis, resources }) of POST /virtual/reload
ReloadAnswer(reloaded, state) ==
    [sent |-> TRUE, reloaded |-> reloaded, apis |-> Len(state.apis),
     resources |-> ResourceKeys(state.sharedResources)]

\* history of a manual reload: the tree it read, the state served before it, the
\* state served when it answered, and whether the watcher's fingerprint was current
NoAudit == [disk |-> <<>>, before |-> EmptyAppState, served |-> EmptyAppState,
            fingerprintCurrent |-> FALSE]

\* the loader's variables while another subsystem runs
LoaderIdle ==
    /\ apiDir = NoDir
    /\ apiLoad = [ok |-> FALSE, error |-> Undef, api |-> NoVirtualApi]
    /\ apiLoadPc = "off"

NoReply == [sent |-> FALSE, status |-> 0, headers |-> {}, body |-> JUndef, how |-> "none"]

\* the route callback's variables while another subsystem runs
RouteIdle ==
    /\ rtRoute = Route("GET", "/")
    /\ rtHandlerFn = [kind |-> "none", result |-> JUndef]
    /\ rtContext = JUndef
    /\ rtPc = "off"
    /\ rtWaited = 0
    /\ rtReply = NoReply
    /\ rtWrites = <<>>

InitServer ==
    /\ LoaderIdle
    /\ RouteIdle
    /\ RuntimeIdle
    /\ SeedIdle
    /\ DbIdle
    /\ OsIdle
    /\ EnvIdle
    /\ InterpIdle
    /\ BulkIdle
    /\ HOT_RELOAD_ENABLED \in BOOLEAN
    /\ VIRTUAL_APIS \in { parseCsvEnv(v) : v \in AllowEnvValues }
    /\ VIRTUAL_APIS_EXCLUDE \in { parseCsvEnv(v) : v \in DenyEnvValues }
    /\ disk \in InitialDisks
    /\ clock = 0
    \* an exception in the first buildAppState() ends the process
    /\ buildAppState(disk, VIRTUAL_APIS, VIRTUAL_APIS_EXCLUDE).ok
    /\ currentState = buildAppState(disk, VIRTUAL_APIS, VIRTUAL_APIS_EXCLUDE).state
    /\ currentRouter = currentState.router
    /\ lastResourcesFingerprint = {}
    /\ srvPc = "boot"
    /\ reloadResponse = NoReloadResponse
    /\ reloadAudit = NoAudit
    /\ handlerCache = {}
    /\ rqPending = <<>>
    /\ rqLog = <<>>

\* another process changes, adds or removes a YAML file
FileWrite ==
    /\ UNCHANGED <<loaderVars, routeVars, cliVars, rqPending, rqLog>>
    /\ clock < MaxWrites
    /\ clock' = clock + 1
    /\ disk' \in DiskAfterWrite(disk, clock + 1)
    /\ UNCHANGED <<HOT_RELOAD_ENABLED, VIRTUAL_APIS, VIRTUAL_APIS_EXCLUDE, currentState,
                   currentRouter, lastResourcesFingerprint, srvPc, reloadResponse,
                   reloadAudit, handlerCache>>

\* if (HOT_RELOAD_ENABLED) { lastResourcesFingerprint = ...; setInterval(...) }
BootWatcher ==
    /\ UNCHANGED <<loaderVars, routeVars, cliVars, rqPending, rqLog>>
    /\ srvPc = "boot"
    /\ srvPc' = "idle"
    /\ lastResourcesFingerprint' =
         IF HOT_RELOAD_ENABLED THEN fingerprintResources(disk) ELSE lastResourcesFingerprint
    /\ UNCHANGED <<disk, clock, HOT_RELOAD_ENABLED, VIRTUAL_APIS, VIRTUAL_APIS_EXCLUDE,
                   currentState, currentRouter, reloadResponse, reloadAudit, handlerCache>>

\* faulty variant: the state is replaced and the router is left as it was
ReloadBuildKeepsRouter(fpPc) ==
    LET nextState == buildAppState(disk, VIRTUAL_APIS, VIRTUAL_APIS_EXCLUDE)
    IN IF nextState.ok
       THEN /\ currentState' = nextState.state
            /\ UNCHANGED currentRouter
            /\ handlerCache' = {}
            /\ srvPc' = fpPc
       ELSE /\ UNCHANGED <<currentState, currentRouter, handlerCache>>
            /\ srvPc' = "idle"

\* the try block of reloadResources up to handlerCache.clear(), and its catch
ReloadBuild(fpPc) ==
    LET nextState == buildAppState(disk, VIRTUAL_APIS, VIRTUAL_APIS_EXCLUDE)
    IN IF nextState.ok
       THEN /\ currentState' = nextState.state
            /\ currentRouter' = nextState.state.router
            /\ handlerCache' = {}
            /\ srvPc' = fpPc
       ELSE /\ UNCHANGED <<currentState, currentRouter, handlerCache>>
            /\ srvPc' = "idle"

\* one firing of the setInterval callback
PollTick ==
    /\ UNCHANGED <<loaderVars, routeVars, cliVars, rqPending, rqLog>>
    /\ srvPc = "idle"
    /\ HOT_RELOAD_ENABLED
    /\ IF fingerprintResources(disk) # lastResourcesFingerprint
       THEN ReloadBuild("watch_fp")
       ELSE UNCHANGED <<currentState, currentRouter, handlerCache, srvPc>>
    /\ UNCHANGED <<disk, clock, HOT_RELOAD_ENABLED, VIRTUAL_APIS, VIRTUAL_APIS_EXCLUDE,
                   lastResourcesFingerprint, reloadResponse, reloadAudit>>

\* faulty variant: a manual reload that, like the watcher, skips the rebuild when the
\* fingerprint is current
ManualReloadIfChanged ==
    /\ UNCHANGED <<loaderVars, routeVars, cliVars, rqPending, rqLog>>
    /\ srvPc = "idle"
    /\ IF fingerprintResources(disk) # lastResourcesFingerprint
       THEN ReloadBuild("manual_fp")
       ELSE UNCHANGED <<currentState, currentRouter, handlerCache, srvPc>>
    /\ reloadResponse' =
         IF fingerprintResources(disk) # lastResourcesFingerprint
            /\ buildAppState(disk, VIRTUAL_APIS, VIRTUAL_APIS_EXCLUDE).ok
         THEN NoReloadResponse
         ELSE ReloadAnswer(FALSE, currentState)
    /\ reloadAudit' =
         [disk |-> disk, before |-> currentState, served |-> currentState',
          fingerprintCurrent |-> fingerprintResources(disk) = lastResourcesFingerprint]
    /\ UNCHANGED <<disk, clock, HOT_RELOAD_ENABLED, VIRTUAL_APIS, VIRTUAL_APIS_EXCLUDE,
                   lastResourcesFingerprint>>

\* POST /virtual/reload up to the fingerprint read; on failure the answer is sent
ManualReload ==
    /\ UNCHANGED <<loaderVars, routeVars, cliVars, rqPending, rqLog>>
    /\ srvPc = "idle"
    /\ ReloadBuild("manual_fp")
    /\ reloadResponse' =
         IF buildAppState(disk, VIRTUAL_APIS, VIRTUAL_APIS_EXCLUDE).ok
         THEN NoReloadResponse
         ELSE ReloadAnswer(FALSE, currentState)
    /\ reloadAudit' =
         [disk |-> disk, before |-> currentState, served |-> currentState',
          fingerprintCurrent |-> fingerprintResources(disk) = lastResourcesFingerprint]
    /\ UNCHANGED <<disk, clock, HOT_RELOAD_ENABLED, VIRTUAL_APIS, VIRTUAL_APIS_EXCLUDE,
                   lastResourcesFingerprint>>

\* lastResourcesFingerprint = fingerprintResources(resourcesRoot); return true;
\* and, for a manual reload, the answer
ReloadFingerprint ==
    /\ UNCHANGED <<loaderVars, routeVars, cliVars, rqPending, rqLog>>
    /\ srvPc \in {"watch_fp", "manual_fp"}
    /\ lastResourcesFingerprint' = fingerprintResources(disk)
    /\ reloadResponse' =
         IF srvPc = "manual_fp" THEN ReloadAnswer(TRUE, currentState) ELSE reloadResponse
    /\ reloadAudit' =
         IF srvPc = "manual_fp" THEN [reloadAudit EXCEPT !.served = currentState]
         ELSE reloadAudit
    /\ srvPc' = "idle"
    /\ UNCHANGED <<disk, clock, HOT_RELOAD_ENABLED, VIRTUAL_APIS, VIRTUAL_APIS_EXCLUDE,
                   currentState, currentRouter, handlerCache>>

NextServer ==
    \/ FileWrite
    \/ BootWatcher
    \/ PollTick
    \/ ManualReload
    \/ ReloadFingerprint

SpecServer == InitServer /\ [][NextServer]_vars

----------------------------------------------------------------------------
(* Claims about the server *)

OnDisk == buildAppState(disk, VIRTUAL_APIS, VIRTUAL_APIS_EXCLUDE)

\* C1: hot reload converges.  When the watcher is at rest (no handler running) and
\* its fingerprint equals the fingerprint of the loadable files on disk, every later
\* poll tick finds nothing to do for as long as the files stay unchanged; so the
\* served state must already be the state built from the files on disk.
C1_HotReloadConverges ==
    (/\ HOT_RELOAD_ENABLED
     /\ srvPc = "idle"
     /\ lastResourcesFingerprint = fingerprintResources(disk)
     /\ OnDisk.ok)
    => /\ currentState.apis = OnDisk.state.apis
       /\ currentState.sharedResources = OnDisk.state.sharedResources
       /\ currentRouter = OnDisk.state.router

\* C2: POST /virtual/reload always rebuilds from the files as they are at the request;
\* a successful build is answered reloaded=true with the API count and resource keys
\* of the newly built state, which is then served; a failed build is answered
\* reloaded=false with those of the state served before, which is still served.
C2_ManualReloadAnswer ==
    reloadResponse.sent =>
        LET built == buildAppState(reloadAudit.disk, VIRTUAL_APIS, VIRTUAL_APIS_EXCLUDE)
            told == IF built.ok THEN built.state ELSE reloadAudit.before
        IN /\ reloadResponse.reloaded = built.ok
           /\ reloadResponse.apis = Len(told.apis)
           /\ reloadResponse.resources = ResourceKeys(told.sharedResources)
           /\ reloadAudit.served = told

\* a manual reload answered reloaded = true and swapped the served state although
\* the stored fingerprint matched the files
C2_Witness ==
    /\ reloadResponse.sent
    /\ reloadResponse.reloaded
    /\ reloadAudit.fingerprintCurrent
    /\ reloadAudit.before # reloadAudit.served

\* the directories the allowlist and denylist keep
KeptDirs(d) ==
    { n \in ApiDirNames :
        /\ d.dirs[n].exists
        /\ (VIRTUAL_APIS = <<>> \/ n \in SeqToSet(VIRTUAL_APIS))
        /\ n \notin SeqToSet(VIRTUAL_APIS_EXCLUDE) }

BrokenDir == Dir(TRUE, OpenApiInvalid, HandlersInvalid, AbsentHandlers, <<>>)
BareDir == Dir(TRUE, AbsentOpenApi, AbsentHandlers, AbsentHandlers, <<>>)

\* C9: the APIs loaded are the directories named in VIRTUAL_APIS (all when it is
\* empty) minus those named in VIRTUAL_APIS_EXCLUDE; the content of a directory that
\* is filtered out has no effect on the result of a load, whatever it holds.
C9_LoadedApis ==
    LET r == loadVirtualApis(disk, VIRTUAL_APIS, VIRTUAL_APIS_EXCLUDE)
        out == { n \in ApiDirNames : disk.dirs[n].exists } \ KeptDirs(disk)
    IN /\ r.ok => { r.apis[i].id : i \in 1..Len(r.apis) } = KeptDirs(disk)
       /\ r.ok = (\A n \in KeptDirs(disk) : LoadApi(n, disk.dirs[n]).ok)
       /\ \A n \in out : \A broken \in {BrokenDir, BareDir} :
            loadVirtualApis([disk EXCEPT !.dirs[n] = broken],
                            VIRTUAL_APIS, VIRTUAL_APIS_EXCLUDE) = r
       /\ reloadResponse.sent /\ reloadResponse.reloaded
            => { reloadAudit.served.apis[i].id : i \in 1..Len(reloadAudit.served.apis) }
                 = KeptDirs(reloadAudit.disk)

\* C9 witness: a reload succeeded while a directory named in both lists held an
\* unparseable handlers.yaml, and that directory is not served
C9_Witness ==
    /\ reloadResponse.sent
    /\ reloadResponse.reloaded
    /\ "api-data" \in SeqToSet(VIRTUAL_APIS)
    /\ "api-data" \in SeqToSet(VIRTUAL_APIS_EXCLUDE)
    /\ reloadAudit.disk.dirs["api-data"].handlersYaml.kind = "invalid"
    /\ \A i \in 1..Len(reloadAudit.served.apis) : reloadAudit.served.apis[i].id # "api-data"

----------------------------------------------------------------------------
(* Loading one API directory: the inputs are API directories with every    *)
(* combination of primary handlers files and handlers/ listings.           *)

ExtraNames == {"a.yaml", "b.yml", "notes.txt"}
ExtraFiles == {ExtraDocA, ExtraDocB, HandlersNoRoutes, HandlersEmpty}

\* fs.readdirSync(handlersDir): any order, no name twice
ExtraListings ==
    { xs \in UNION { [1..n -> [name : ExtraNames, file : ExtraFiles]] : n \in 0..MaxExtras } :
        \A i, j \in 1..Len(xs) : i # j => xs[i].name # xs[j].name }

LoaderDirs ==
    { Dir(TRUE, oa, hy, hm, xs) :
        oa \in {OpenApiDocA},
        hy \in {AbsentHandlers, HandlersDocA, HandlersNoRoutes, HandlersEmpty},
        hm \in {AbsentHandlers, HandlersDocB},
        xs \in ExtraListings }

\* the server's variables while another subsystem runs
ServerIdle ==
    /\ disk = <<>>
    /\ clock = 0
    /\ HOT_RELOAD_ENABLED = FALSE
    /\ VIRTUAL_APIS = <<>>
    /\ VIRTUAL_APIS_EXCLUDE = <<>>
    /\ currentState = EmptyAppState
    /\ currentRouter = <<>>
    /\ lastResourcesFingerprint = {}
    /\ srvPc = "off"
    /\ reloadResponse = NoReloadResponse
    /\ reloadAudit = NoAudit
    /\ handlerCache = {}
    /\ rqPending = <<>>
    /\ rqLog = <<>>

InitLoader ==
    /\ ServerIdle
    /\ RouteIdle
    /\ RuntimeIdle
    /\ SeedIdle
    /\ DbIdle
    /\ OsIdle
    /\ EnvIdle
    /\ InterpIdle
    /\ BulkIdle
    /\ apiDir \in LoaderDirs
    /\ apiLoad = [ok |-> FALSE, error |-> Undef, api |-> NoVirtualApi]
    /\ apiLoadPc = "input"

\* one iteration of entries.map(...) in loadVirtualApis
LoadApiDir ==
    /\ UNCHANGED <<routeVars, cliVars>>
    /\ apiLoadPc = "input"
    /\ apiLoad' = LoadApi("api-data", apiDir)
    /\ apiLoadPc' = "loaded"
    /\ UNCHANGED <<apiDir, serverVars>>

NextLoader == LoadApiDir

SpecLoader == InitLoader /\ [][NextLoader]_vars

\* the handlers/ files in alphabetical file-name order
AlphabeticalYamlNames == <<"a.yaml", "b.yml", "c.yaml">>

RoutesOfFile(f) == IF f.kind = "doc" /\ f.doc.hasRoutes THEN f.doc.routes ELSE <<>>

\* the routes of the handlers/ file called n, <<>> when there is none
RoutesOfExtra(dir, n) ==
    LET at == { i \in 1..Len(dir.extras) : dir.extras[i].name = n }
    IN IF at = {} THEN <<>> ELSE RoutesOfFile(dir.extras[CHOOSE i \in at : TRUE].file)

RECURSIVE RoutesInNameOrder(_, _)
RoutesInNameOrder(dir, names) ==
    IF names = <<>> THEN <<>>
    ELSE RoutesOfExtra(dir, Head(names)) \o RoutesInNameOrder(dir, Tail(names))

\* the directory with the api block removed from every handlers/ file
WithoutExtraApi(dir) ==
    [dir EXCEPT !.extras =
        [i \in 1..Len(dir.extras) |->
            [dir.extras[i] EXCEPT !.file.doc.api = NoApi]]]

\* C8, routes: the registered routes are those of the primary handlers file followed
\* by those of the handlers/ files in alphabetical file-name order
C8_RouteOrder ==
    (apiLoadPc = "loaded" /\ apiLoad.ok) =>
        apiLoad.api.handlers =
            normalizeHandlers(RoutesOfFile(PrimaryFile(apiDir))
                              \o RoutesInNameOrder(apiDir, AlphabeticalYamlNames))

\* C8, metadata: name, basePath and description are those the primary handlers file
\* gives; an api block in a handlers/ file changes nothing
C8_PrimaryMetadata ==
    (apiLoadPc = "loaded" /\ apiLoad.ok) =>
        /\ apiLoad = LoadApi("api-data", WithoutExtraApi(apiDir))
        /\ (PrimaryFile(apiDir).kind = "doc" /\ PrimaryFile(apiDir).doc.api.present) =>
              /\ apiLoad.api.name = PrimaryFile(apiDir).doc.api.name
              /\ apiLoad.api.basePath = PrimaryFile(apiDir).doc.api.basePath
              /\ apiLoad.api.description = PrimaryFile(apiDir).doc.api.description

HasExtraRoute(dir) == RoutesInNameOrder(dir, AlphabeticalYamlNames) # <<>>

\* C8, failure: with every file parseable, loading the handlers fails only when there
\* is neither a primary handlers file nor a route in handlers/
C8_FailsOnlyWithoutHandlers ==
    apiLoadPc = "loaded" =>
        (~apiLoad.ok => (HandlersPath(apiDir) = Undef /\ ~HasExtraRoute(apiDir)))

\* C8: the registered routes are those of handlers.yaml (or handlers.yml) followed by
\* those of the handlers/ files in alphabetical file-name order; name, basePath and
\* description come only from the primary file; loading fails only when there is
\* neither a primary file nor a route in handlers/.
C8_HandlersBundle == C8_RouteOrder /\ C8_PrimaryMetadata /\ C8_FailsOnlyWithoutHandlers

----------------------------------------------------------------------------
(* One request to a route registered by buildApiRouter *)

\* acc?.[part]
Member(v, key) ==
    IF v.t = "obj" /\ \E i \in 1..Len(v.entries) : v.entries[i].k = key
    THEN v.entries[CHOOSE i \in 1..Len(v.entries) : v.entries[i].k = key].v
    ELSE JUndef

RECURSIVE GetPath(_, _)
\* token.split('.').reduce((acc, part) => acc?.[part], context)
GetPath(v, segs) ==
    IF segs = <<>> THEN v ELSE GetPath(Member(v, Head(segs)), Tail(segs))

RECURSIVE TextOf(_)
\* the characters of a string given as parts (placeholders stay as written)
TextOf(parts) ==
    IF parts = <<>> THEN ""
    ELSE LET p == Head(parts)
         IN (IF p.lit THEN p.text ELSE "{{" \o "?" \o "}}") \o TextOf(Tail(parts))

\* String(value) for a defined value
StringOf(v) ==
    CASE v.t = "str" -> TextOf(v.parts)
      [] v.t = "num" -> ToString(v.n)
      [] v.t = "null" -> "null"
      [] v.t = "obj" -> "[object Object]"
      [] OTHER -> ""

\* the text the group ([^}]+) captures, split at the dots: \s* before the group eats
\* the leading white space, the greedy group keeps the trailing white space
CapturedPath(tok) ==
    IF tok.trail THEN [tok.path EXCEPT ![Len(tok.path)] = @ \o " "] ELSE tok.path

RECURSIVE interpolateString(_, _)
interpolateString(parts, context) ==
    IF parts = <<>> THEN ""
    ELSE LET p == Head(parts)
             value == GetPath(context, CapturedPath(p))
         IN (IF p.lit THEN p.text
             ELSE IF value.t # "undef" THEN StringOf(value) ELSE "")
            \o interpolateString(Tail(parts), context)

RECURSIVE applyTemplate(_, _)
applyTemplate(template, context) ==
    CASE template.t = "str" -> JText(interpolateString(template.parts, context))
      [] template.t = "arr" ->
            JArr([i \in 1..Len(template.items) |-> applyTemplate(template.items[i], context)])
      [] template.t = "obj" ->
            JObj([i \in 1..Len(template.entries) |->
                    [k |-> template.entries[i].k,
                     v |-> applyTemplate(template.entries[i].v, context)]])
      [] OTHER -> template

\* Object.entries(headers) of a headers object
HeaderEntries(v) ==
    IF v.t = "obj" THEN { <<v.entries[i].k, StringOf(v.entries[i].v)>> : i \in 1..Len(v.entries) }
    ELSE {}

\* normalizeHandlerResult
normalizeHandlerResult(result) ==
    IF result.t = "obj"
       /\ \E i \in 1..Len(result.entries) : result.entries[i].k \in {"status", "headers", "body"}
    THEN [status |-> Member(result, "status"), headers |-> Member(result, "headers"),
          body |-> Member(result, "body")]
    ELSE [status |-> JUndef, headers |-> JUndef, body |-> result]

\* sendResponseBody
sendResponseBody(status, headers, body) ==
    [sent |-> TRUE, status |-> status, headers |-> headers, body |-> body,
     how |-> IF body.t = "undef" THEN "end" ELSE IF body.t = "str" THEN "send" ELSE "json"]

JsonMessage(status, entries) ==
    [sent |-> TRUE, status |-> status, headers |-> {}, body |-> JObj(entries), how |-> "json"]

\* the handler branch of the route callback: loadHandler, await handlerFn(context),
\* and what is sent
HandlerReply(fn) ==
    CASE fn.kind \in {"not-found", "throws"} ->
            JsonMessage(500, <<[k |-> "message", v |-> JText("Handler execution failed")],
                               [k |-> "error", v |-> JText("error")]>>)
      [] fn.kind \in {"sends", "sends-returns", "sends-throws"} ->
            \* the handler answered through ctx.res: res.headersSent, nothing more is sent
            [sent |-> TRUE, status |-> 202, headers |-> {}, body |-> fn.result, how |-> "handler"]
      [] fn.kind = "returns" /\ fn.result.t = "undef" ->
            JsonMessage(500, <<[k |-> "message", v |-> JText("Handler returned no response")]>>)
      [] OTHER ->
            LET normalized == normalizeHandlerResult(fn.result)
            IN sendResponseBody(
                   IF normalized.status.t \in {"undef", "null"} THEN 200 ELSE normalized.status.n,
                   HeaderEntries(normalized.headers),
                   normalized.body)

\* the declarative branch: status, headers and body or bodyTemplate of `response`
ResponseReply(response, context) ==
    sendResponseBody(
        IF response.status = NoNum THEN 200 ELSE response.status,
        response.headers,
        IF response.bodyTemplate.t # "undef" THEN applyTemplate(response.bodyTemplate, context)
        ELSE IF response.body.t \in {"undef", "null"}
             THEN JObj(<<[k |-> "ok", v |-> [t |-> "bool", b |-> TRUE]]>>)
             ELSE response.body)

\* a response written through `res`, by the handler or by the route callback
WrittenBy(who, reply) == [by |-> who, reply |-> reply]

\* res.headersSent once the handler has run
headersSent(fn) == fn.kind \in {"sends", "sends-returns", "sends-throws"}

\* loadHandler or the handler threw
HandlerThrew(fn) == fn.kind \in {"not-found", "throws", "sends-throws"}

HandlerFailed ==
    JsonMessage(500, <<[k |-> "message", v |-> JText("Handler execution failed")],
                       [k |-> "error", v |-> JText("error")]>>)

\* faulty variant: the catch answers without looking at res.headersSent
CallbackWritesUnguarded(fn) ==
    IF HandlerThrew(fn) THEN <<WrittenBy("server", HandlerFailed)>>
    ELSE IF headersSent(fn) THEN <<>>
    ELSE <<WrittenBy("server", HandlerReply(fn))>>

\* what the route callback itself writes in the handler branch: the try block after
\* `await handlerFn(context)`, and the catch
CallbackWrites(fn) ==
    IF HandlerThrew(fn)
    THEN (IF ~headersSent(fn) THEN <<WrittenBy("server", HandlerFailed)>> ELSE <<>>)
    ELSE IF headersSent(fn) THEN <<>>
    ELSE <<WrittenBy("server", HandlerReply(fn))>>

\* every response written for a request once any delay is over
RouteWrites(route, fn, context) ==
    IF route.handler # Undef
    THEN (IF headersSent(fn) THEN <<WrittenBy("handler", HandlerReply(fn))>> ELSE <<>>)
         \o CallbackWrites(fn)
    ELSE <<WrittenBy("server", ResponseReply(route.response, context))>>

\* what the callback sends once any delay is over
RouteReply(route, fn, context) ==
    IF route.handler # Undef THEN HandlerReply(fn) ELSE ResponseReply(route.response, context)


\* if (response.delayMs && response.delayMs > 0) await setTimeout(response.delayMs)
delayOf(route) ==
    IF route.response.delayMs # NoNum /\ route.response.delayMs > 0
    THEN route.response.delayMs ELSE 0

\* request contexts
ContextA ==
    JObj(<<[k |-> "params", v |-> JObj(<<[k |-> "id", v |-> JText("42")]>>)],
           [k |-> "query", v |-> JObj(<<[k |-> "chain", v |-> JText("ROOT")]>>)],
           [k |-> "body", v |-> JObj(<<[k |-> "amount", v |-> JNum(7)]>>)],
           [k |-> "resources", v |-> JObj(<<[k |-> "postgres", v |-> JObj(<<>>)]>>)],
           [k |-> "meta", v |-> JObj(<<[k |-> "requestId", v |-> JText("r1")]>>)]>>)
ContextB ==
    JObj(<<[k |-> "params", v |-> JObj(<<>>)],
           [k |-> "query", v |-> JObj(<<>>)],
           [k |-> "body", v |-> JNull],
           [k |-> "resources", v |-> JObj(<<>>)],
           [k |-> "meta", v |-> JObj(<<[k |-> "requestId", v |-> JText("r2")]>>)]>>)
RequestContexts == {ContextA, ContextB}

TemplateA ==
    JObj(<<[k |-> "id", v |-> JStr(<<Lit("item-"), Tok(<<"params", "id">>, FALSE, FALSE)>>)],
           [k |-> "tags", v |-> JArr(<<JStr(<<Tok(<<"query", "chain">>, TRUE, FALSE)>>), JNum(1)>>)]>>)

\* { "ref": "{{ params.id }}/{{body.missing}}", "n": 5, "none": null }
TemplateB ==
    JObj(<<[k |-> "ref", v |-> JStr(<<Tok(<<"params", "id">>, TRUE, TRUE), Lit("/"),
                                      Tok(<<"body", "missing">>, FALSE, FALSE)>>)],
           [k |-> "n", v |-> JNum(5)],
           [k |-> "none", v |-> JNull]>>)

ResponseBlocks ==
    { [defined |-> TRUE, status |-> st, headers |-> hs, body |-> b, bodyTemplate |-> tpl,
       delayMs |-> dl] :
        st \in {NoNum, 201}, hs \in {{}, {<<"x-mock", "1">>}},
        b \in {JUndef, JText("literal")}, tpl \in {JUndef, TemplateA, TemplateB},
        dl \in {NoNum, 0, 50} } \cup {NoResponse}

HandlerFns ==
    { [kind |-> "returns", result |-> r] :
        r \in {JUndef, JText("plain"),
               JObj(<<[k |-> "status", v |-> JNum(200)],
                      [k |-> "body", v |-> JObj(<<[k |-> "ok", v |-> JNum(1)]>>)]>>),
               JObj(<<[k |-> "headers", v |-> JObj(<<[k |-> "x-h", v |-> JText("v")]>>)]>>),
               JObj(<<[k |-> "data", v |-> JNum(3)]>>)} }
    \cup { [kind |-> k, result |-> JUndef] : k \in {"throws", "not-found"} }
    \cup { [kind |-> k, result |-> JText("streamed")] :
             k \in {"sends", "sends-returns", "sends-throws"} }
NoHandlerFn == [kind |-> "none", result |-> JUndef]

InitRoute ==
    /\ ServerIdle
    /\ LoaderIdle
    /\ RuntimeIdle
    /\ SeedIdle
    /\ DbIdle
    /\ OsIdle
    /\ EnvIdle
    /\ InterpIdle
    /\ BulkIdle
    /\ \E m \in {"get"}, h \in {Undef, "api-data/netwin"}, r \in ResponseBlocks :
          rtRoute = [method |-> m, path |-> "/reports/netwin", handler |-> h, response |-> r]
    /\ rtHandlerFn \in (IF rtRoute.handler = Undef THEN {NoHandlerFn} ELSE HandlerFns)
    /\ rtContext \in RequestContexts
    /\ rtPc = "received"
    /\ rtWaited = 0
    /\ rtReply = NoReply
    /\ rtWrites = <<>>

\* the callback runs up to its first await, or to the end when there is no delay
RouteCallback ==
    /\ rtPc = "received"
    /\ IF delayOf(rtRoute) > 0
       THEN /\ rtPc' = "sleeping"
            /\ UNCHANGED <<rtReply, rtWaited, rtWrites>>
       ELSE /\ rtPc' = "replied"
            /\ rtReply' = RouteReply(rtRoute, rtHandlerFn, rtContext)
            /\ rtWrites' = RouteWrites(rtRoute, rtHandlerFn, rtContext)
            /\ UNCHANGED rtWaited
    /\ UNCHANGED <<rtRoute, rtHandlerFn, rtContext, serverVars, loaderVars, cliVars>>

\* the setTimeout of the delay fires and the callback runs to its end
RouteTimer ==
    /\ rtPc = "sleeping"
    /\ rtWaited' = delayOf(rtRoute)
    /\ rtPc' = "replied"
    /\ rtReply' = RouteReply(rtRoute, rtHandlerFn, rtContext)
    /\ rtWrites' = RouteWrites(rtRoute, rtHandlerFn, rtContext)
    /\ UNCHANGED <<rtRoute, rtHandlerFn, rtContext, serverVars, loaderVars, cliVars>>

NextRoute == RouteCallback \/ RouteTimer

SpecRoute == InitRoute /\ [][NextRoute]_vars

\* C7: when a route defines `handler`, nothing in its `response` block influences the
\* reply or its timing: the reply is the one the handler alone determines, and it is
\* sent without any delay taken from `response`.
C7_HandlerIgnoresResponse ==
    (rtPc \in {"sleeping", "replied"} /\ rtRoute.handler # Undef) =>
        /\ rtPc = "replied"
        /\ rtWaited = 0
        /\ rtReply = RouteReply([rtRoute EXCEPT !.response = NoResponse], rtHandlerFn, rtContext)

\* C7, the part the code keeps: status, headers, body and bodyTemplate of `response`
\* do not reach the reply of a route with a handler
C7_ReplyFromHandlerOnly ==
    (rtPc = "replied" /\ rtRoute.handler # Undef) =>
        rtReply = RouteReply([rtRoute EXCEPT !.response = NoResponse], rtHandlerFn, rtContext)

----------------------------------------------------------------------------
(* shell-virtual postgres: option parsing and resolvePostgresRuntime *)

\* a || b on string-valued fields
OrElse(a, b) == IF a # Undef /\ a # "" THEN a ELSE b

DEFAULT_SERVICE(env) == OrElse(env.POSTGRES_SERVICE, "postgres")
DEFAULT_USER(env) == OrElse(env.POSTGRES_USER, "postgres")
DEFAULT_ADMIN_DB(env) == OrElse(env.POSTGRES_ADMIN_DB, "postgres")
DEFAULT_COMPOSE_DIR(env) == OrElse(env.COMPOSE_DIR, "<repo>")


\* the options object commander hands to the action: a flag's value when the flag is
\* written, else the default given to .option(); --admin-db exists on create-db and
\* drop-db only, --target has no default
CommandOptions(cmd, flags, env) ==
    [service |-> Coalesce(flags.service, DEFAULT_SERVICE(env)),
     user |-> Coalesce(flags.user, DEFAULT_USER(env)),
     adminDb |-> IF cmd \in {"create-db", "drop-db"}
                 THEN Coalesce(flags.adminDb, DEFAULT_ADMIN_DB(env))
                 ELSE Undef,
     composeDir |-> Coalesce(flags.composeDir, DEFAULT_COMPOSE_DIR(env)),
     target |-> flags.target]

\* Number(process.env.POSTGRES_PORT) on the values the model uses
NumberOf(x) == CASE x = "6543" -> 6543 [] x = "5433" -> 5433 [] OTHER -> 0

CoalesceNum(a, b) == IF a # NoNum THEN a ELSE b

\* config.env?.databases?.[targetName]
TargetEntry(cfgEnv, targetName) ==
    IF targetName \in DbTargetNames THEN cfgEnv.databases[targetName] ELSE NoPgConfig

resolvePostgresRuntime(options, fallbackTarget, cfgEnv, env) ==
    LET cfg == cfgEnv.postgres
        targetName == Coalesce(options.target, fallbackTarget)
        dbTarget == TargetEntry(cfgEnv, targetName)
        mode == Coalesce(dbTarget.mode,
                  Coalesce(cfg.mode, Coalesce(env.PG_MODE, Coalesce(env.POSTGRES_MODE, "compose"))))
    IN [mode |-> IF mode = "direct" THEN "direct" ELSE "compose",
        service |-> Coalesce(options.service, Coalesce(dbTarget.service,
                      Coalesce(cfg.service, Coalesce(env.POSTGRES_SERVICE, "postgres")))),
        user |-> Coalesce(options.user, Coalesce(dbTarget.user,
                   Coalesce(cfg.user, Coalesce(env.POSTGRES_USER, "postgres")))),
        password |-> Coalesce(dbTarget.password, Coalesce(cfg.password,
                       Coalesce(env.POSTGRES_PASSWORD, env.PG_PASSWORD))),
        host |-> Coalesce(dbTarget.host, Coalesce(cfg.host,
                   Coalesce(env.POSTGRES_HOST, env.PG_HOST))),
        port |-> CoalesceNum(dbTarget.port, CoalesceNum(cfg.port,
                   IF OrElse(env.POSTGRES_PORT, Undef) # Undef THEN NumberOf(env.POSTGRES_PORT)
                   ELSE IF OrElse(env.PG_PORT, Undef) # Undef THEN NumberOf(env.PG_PORT)
                   ELSE 5432)),
        adminDb |-> Coalesce(options.adminDb, Coalesce(dbTarget.adminDb,
                      Coalesce(cfg.adminDb, Coalesce(env.POSTGRES_ADMIN_DB, "postgres")))),
        composeDir |-> Coalesce(options.composeDir, Coalesce(dbTarget.composeDir,
                         Coalesce(cfg.composeDir, DEFAULT_COMPOSE_DIR(env)))),
        ssl |-> Coalesce(dbTarget.ssl, Coalesce(cfg.ssl,
                  IF OrElse(env.POSTGRES_SSL, Undef) # Undef
                  THEN (IF env.POSTGRES_SSL = "true" THEN "true" ELSE "false")
                  ELSE Undef))]

\* the fallback target each command passes: <name>, or options.db ?? 'postgres'
FallbackTarget(cmd, name) == name

PgConfigs ==
    { NoPgConfig,
      [defined |-> TRUE, mode |-> "compose", service |-> "postgres-main", user |-> "main",
       password |-> Undef, host |-> Undef, port |-> NoNum, adminDb |-> "maindb",
       composeDir |-> "../main", ssl |-> Undef],
      [defined |-> TRUE, mode |-> "direct", service |-> Undef, user |-> "stg",
       password |-> "secret", host |-> "stg-db", port |-> 5433, adminDb |-> Undef,
       composeDir |-> Undef, ssl |-> "true"] }

TargetConfigs ==
    { NoPgConfig,
      [defined |-> TRUE, mode |-> "compose", service |-> "postgres-wallet", user |-> "wallet",
       password |-> Undef, host |-> Undef, port |-> NoNum, adminDb |-> "walletadmin",
       composeDir |-> "../wallet", ssl |-> Undef],
      [defined |-> TRUE, mode |-> "direct", service |-> Undef, user |-> Undef,
       password |-> "pw-wallet", host |-> "wallet-db", port |-> 6432, adminDb |-> Undef,
       composeDir |-> Undef, ssl |-> "false"] }

ProcessEnvs ==
    { NoProcessEnv,
      [NoProcessEnv EXCEPT !.POSTGRES_SERVICE = "pg-env", !.POSTGRES_HOST = "env-host",
                           !.POSTGRES_PORT = "6543", !.PG_MODE = "direct"] }

FlagSets ==
    { [service |-> sv, user |-> us, adminDb |-> ad, composeDir |-> cd, target |-> tg] :
        sv \in {Undef, "svc-flag"}, us \in {Undef, "user-flag"}, ad \in {Undef, "admin-flag"},
        cd \in {Undef}, tg \in {Undef, "api_wallet", "unknown"} }

InitRuntime ==
    /\ ServerIdle
    /\ LoaderIdle
    /\ RouteIdle
    /\ SeedIdle
    /\ DbIdle
    /\ OsIdle
    /\ EnvIdle
    /\ InterpIdle
    /\ BulkIdle
    /\ pgCommand \in {"create-db", "drop-db", "seed", "seed-yaml"}
    /\ pgFlags \in { f \in FlagSets :
                       pgCommand \in {"create-db", "drop-db"} \/ f.adminDb = Undef }
    /\ pgName \in {"api_wallet", "postgres"}
    /\ pgConfigEnv \in { [postgres |-> c, databases |-> [n \in DbTargetNames |->
                            IF n = "api_wallet" THEN t ELSE NoPgConfig]] :
                         c \in PgConfigs, t \in TargetConfigs }
    /\ pgProcessEnv \in ProcessEnvs
    /\ pgRuntime = NoRuntime
    /\ pgPc = "parsed"

\* const runtime = resolvePostgresRuntime(options, <fallback>) at the top of an action
ResolveRuntime ==
    /\ pgPc = "parsed"
    /\ pgRuntime' = resolvePostgresRuntime(CommandOptions(pgCommand, pgFlags, pgProcessEnv),
                                           FallbackTarget(pgCommand, pgName),
                                           pgConfigEnv, pgProcessEnv)
    /\ pgPc' = "resolved"
    /\ UNCHANGED <<pgCommand, pgFlags, pgName, pgConfigEnv, pgProcessEnv,
                   serverVars, loaderVars, routeVars, seedVars, dbVars, osVars, envVars,
        bulkVars, interpVars>>

NextRuntime == ResolveRuntime

SpecRuntime == InitRuntime /\ [][NextRuntime]_vars

\* the databases.<name> entry the command selects: --target, else the database name
SelectedEntry ==
    TargetEntry(pgConfigEnv, IF pgFlags.target # Undef THEN pgFlags.target ELSE pgName)

\* a setting the entry defines is used unless its flag is written on the command line
UsesEntry(entryValue, flagValue, used) ==
    entryValue # Undef => used = (IF flagValue # Undef THEN flagValue ELSE entryValue)

\* C10: every connection setting the selected databases.<name> entry defines is the
\* one used, unless a flag written on the command line overrides it.
C10_TargetSettingsUsed ==
    (pgPc = "resolved" /\ SelectedEntry.defined) =>
        /\ UsesEntry(SelectedEntry.mode, Undef, pgRuntime.mode)
        /\ UsesEntry(SelectedEntry.service, pgFlags.service, pgRuntime.service)
        /\ UsesEntry(SelectedEntry.user, pgFlags.user, pgRuntime.user)
        /\ UsesEntry(SelectedEntry.password, Undef, pgRuntime.password)
        /\ UsesEntry(SelectedEntry.host, Undef, pgRuntime.host)
        /\ (SelectedEntry.port # NoNum => pgRuntime.port = SelectedEntry.port)
        /\ UsesEntry(SelectedEntry.adminDb, pgFlags.adminDb, pgRuntime.adminDb)
        /\ UsesEntry(SelectedEntry.composeDir, pgFlags.composeDir, pgRuntime.composeDir)
        /\ UsesEntry(SelectedEntry.ssl, Undef, pgRuntime.ssl)

\* C10, the settings that have no command-line option: these the entry does decide
C10_UnflaggedSettingsUsed ==
    (pgPc = "resolved" /\ SelectedEntry.defined) =>
        /\ UsesEntry(SelectedEntry.mode, Undef, pgRuntime.mode)
        /\ UsesEntry(SelectedEntry.password, Undef, pgRuntime.password)
        /\ UsesEntry(SelectedEntry.host, Undef, pgRuntime.host)
        /\ (SelectedEntry.port # NoNum => pgRuntime.port = SelectedEntry.port)
        /\ UsesEntry(SelectedEntry.ssl, Undef, pgRuntime.ssl)
        /\ (pgCommand \in {"seed", "seed-yaml"} =>
              UsesEntry(SelectedEntry.adminDb, Undef, pgRuntime.adminDb))

----------------------------------------------------------------------------
(* shell-virtual postgres seed-yaml: the seed file and the statements built from it *)

\* A YAML mapping is held as its entries [k, v] in the order the document writes them.

\* property names that are array indices, and their numeric value
IsArrayIndex(k) == k \in {"7", "2024"}
IndexValue(k) == CASE k = "7" -> 7 [] k = "2024" -> 2024 [] OTHER -> 0

\* Object.entries(obj) / Object.keys(obj) of the object parsed from the mapping:
\* array-index keys first, ascending, then the other keys as inserted
ObjectEntries(entries) ==
    SortSeq(SelectSeq(entries, LAMBDA e : IsArrayIndex(e.k)),
            LAMBDA a, b : IndexValue(a.k) < IndexValue(b.k))
    \o SelectSeq(entries, LAMBDA e : ~IsArrayIndex(e.k))


NoRef == [table |-> Undef, where |-> <<>>, column |-> Undef]

\* seed values: a plain string, the string "{{vars.<v>}}", a number, null, a value
\* resolved by a ref (bigint or text), and a { ref: ... } object
SText(x) == [t |-> "string", v |-> x, ref |-> NoRef]
SVar(name) == [t |-> "vars", v |-> name, ref |-> NoRef]
SNum(x) == [t |-> "number", v |-> x, ref |-> NoRef]
SBigInt(x) == [t |-> "bigint", v |-> x, ref |-> NoRef]
SNull == [t |-> "null", v |-> Undef, ref |-> NoRef]
SUndefined == [t |-> "undefined", v |-> Undef, ref |-> NoRef]
SRef(table, where, column) ==
    [t |-> "ref", v |-> Undef, ref |-> [table |-> table, where |-> where, column |-> column]]
\* the string "${<v>}", a boolean, and a mapping
SLegacy(name) == [t |-> "legacy", v |-> name, ref |-> NoRef]
SBool(b) == [t |-> "boolean", v |-> b, ref |-> NoRef]
SObject(entries) == [t |-> "object", v |-> Undef, ref |-> NoRef, entries |-> entries]

\* a longer string: literal text (without braces or "$") around placeholders
Plain(text) == [k |-> "text", s |-> text]
Handlebars(name) == [k |-> "handlebars", s |-> name]
Legacy(name) == [k |-> "legacy", s |-> name]
STemplate(parts) == [t |-> "template", v |-> Undef, ref |-> NoRef, parts |-> parts]

Entry(k, v) == [k |-> k, v |-> v]

\* variables[name] on a flat `variables` mapping
LookupVar(variables, name) ==
    IF \E i \in 1..Len(variables) : variables[i].k = name
    THEN variables[CHOOSE i \in 1..Len(variables) : variables[i].k = name].v
    ELSE SUndefined

\* faulty variant: the top-level value wins for a shared name
MergeVariablesGlobalsWin(globals, own) ==
    globals \o SelectSeq(own, LAMBDA e : LookupVar(globals, e.k).t = "undefined")

\* { ...globalVariables, ...(dbConfig.variables ?? {}) }
MergeVariables(globals, own) ==
    SelectSeq(globals, LAMBDA e : LookupVar(own, e.k).t = "undefined") \o own

\* keyPath.split('.') on the names of the model
split(keyPath) ==
    CASE keyPath = "org.id" -> <<"org", "id">>
      [] keyPath = "tenant.id" -> <<"tenant", "id">>
      [] OTHER -> <<keyPath>>

RECURSIVE ReducePath(_, _)
\* the reduce of resolveVarByPath from accumulator acc over the remaining keys
ReducePath(acc, keys) ==
    IF keys = <<>> THEN acc
    ELSE IF acc.t # "object" THEN SUndefined
    ELSE ReducePath(LookupVar(acc.entries, Head(keys)), Tail(keys))

resolveVarByPath(variables, keyPath) == ReducePath(SObject(variables), split(keyPath))

\* the characters of a part of a string
PartText(part) ==
    CASE part.k = "handlebars" -> "{{vars." \o part.s \o "}}"
      [] part.k = "legacy" -> "${" \o part.s \o "}"
      [] OTHER -> part.s

\* String(resolved) of a YAML value, as text and placeholders
StringParts(value) ==
    CASE value.t = "vars" -> <<Handlebars(value.v)>>
      [] value.t = "legacy" -> <<Legacy(value.v)>>
      [] value.t = "template" -> value.parts
      [] value.t = "null" -> <<Plain("null")>>
      [] value.t \in {"object", "ref"} -> <<Plain("[object Object]")>>
      [] OTHER -> <<Plain(value.v)>>

RECURSIVE PartsText(_)
PartsText(parts) == IF parts = <<>> THEN "" ELSE PartText(Head(parts)) \o PartsText(Tail(parts))

\* the characters of a string value
StringText(value) == PartsText(StringParts(value))

RECURSIVE ReplaceParts(_, _, _)
\* value.replace(regex, callback) for the placeholders of one syntax: every match in
\* the string is replaced, the inserted text is not scanned again
ReplaceParts(parts, syntax, variables) ==
    IF parts = <<>> THEN <<>>
    ELSE LET part == Head(parts)
             resolved == resolveVarByPath(variables, part.s)
         IN (IF part.k # syntax THEN <<part>>
             ELSE IF resolved.t # "undefined"
                  THEN [i \in 1..Len(StringParts(resolved)) |->
                           [k |-> IF syntax = "legacy" THEN "text"
                                  ELSE StringParts(resolved)[i].k,
                            s |-> IF syntax = "legacy"
                                  THEN PartText(StringParts(resolved)[i])
                                  ELSE StringParts(resolved)[i].s]]
                  ELSE <<>>)
            \o ReplaceParts(Tail(parts), syntax, variables)

RECURSIVE applySeedVariables(_, _)
\* on a value; objects are rebuilt entry by entry in Object.entries order
applySeedVariables(value, variables) ==
    CASE value.t \in {"vars", "legacy"} ->
            LET resolved == resolveVarByPath(variables, value.v)
            IN IF resolved.t # "undefined" THEN resolved ELSE SText("")
      [] value.t = "template" ->
            SText(PartsText(ReplaceParts(ReplaceParts(value.parts, "handlebars", variables),
                                         "legacy", variables)))
      [] value.t = "ref" ->
            SRef(value.ref.table,
                 LET w == ObjectEntries(value.ref.where)
                 IN [i \in 1..Len(w) |-> Entry(w[i].k, applySeedVariables(w[i].v, variables))],
                 value.ref.column)
      [] value.t = "object" ->
            SObject(LET o == ObjectEntries(value.entries)
                    IN [i \in 1..Len(o) |->
                           Entry(o[i].k, applySeedVariables(o[i].v, variables))])
      [] OTHER -> value

\* applySeedVariables on a row ( { column: value } )
ApplyVarsRow(row, variables) ==
    LET r == ObjectEntries(row)
    IN [i \in 1..Len(r) |-> Entry(r[i].k, applySeedVariables(r[i].v, variables))]

ApplyVarsRows(rows, variables) == [i \in 1..Len(rows) |-> ApplyVarsRow(rows[i], variables)]

\* applySeedVariables on the `tables` mapping
ApplyVarsTables(tables, variables) ==
    LET ts == ObjectEntries(tables)
    IN [i \in 1..Len(ts) |->
          Entry(ts[i].k, [ts[i].v EXCEPT !.rows = ApplyVarsRows(@, variables)])]

\* applySeedVariables on the `operations` list
ApplyVarsOperations(operations, variables) ==
    [i \in 1..Len(operations) |->
        [operations[i] EXCEPT !.rows = ApplyVarsRows(@, variables),
                              !.where = ApplyVarsRow(@, variables),
                              !.set = ApplyVarsRow(@, variables)]]

quoteIdentifier(name) == "\"" \o name \o "\""

\* on values without quote characters
toSqlValue(value) ==
    CASE value.t \in {"null", "undefined"} -> "NULL"
      [] value.t \in {"number", "bigint"} -> value.v
      [] value.t = "boolean" -> IF value.v = "true" THEN "TRUE" ELSE "FALSE"
      [] value.t = "ref" -> "'{\"ref\":...}'::jsonb"
      [] value.t = "object" -> "'{...}'::jsonb"
      [] OTHER -> "'" \o StringText(value) \o "'"

\* Boolean(candidate.ref && candidate.ref.table && candidate.ref.where); the where of
\* a ref is a mapping, which is truthy even when it has no entry
isSeedRef(value) == value.t = "ref" /\ value.ref.table \notin {Undef, ""}

RECURSIVE Join(_, _)
\* parts.join(sep)
Join(parts, sep) ==
    IF parts = <<>> THEN ""
    ELSE IF Len(parts) = 1 THEN parts[1]
    ELSE parts[1] \o sep \o Join(Tail(parts), sep)

\* what a builder gives: the SQL text, or the message of the error it throws
Built(sql) == [ok |-> TRUE, sql |-> sql, message |-> Undef]
Thrown(message) == [ok |-> FALSE, sql |-> Undef, message |-> message]

buildInsertSql(table, row, upsertBy) ==
    LET r == ObjectEntries(row)
        columns == [i \in 1..Len(r) |-> r[i].k]
        columnSql == Join([i \in 1..Len(r) |-> quoteIdentifier(r[i].k)], ", ")
        valuesSql == Join([i \in 1..Len(r) |-> toSqlValue(r[i].v)], ", ")
        sql == "INSERT INTO " \o quoteIdentifier(table) \o " (" \o columnSql
               \o ") VALUES (" \o valuesSql \o ")"
        conflictCols == Join([i \in 1..Len(upsertBy) |-> quoteIdentifier(upsertBy[i])], ", ")
        updateCols == SelectSeq(columns, LAMBDA c : c \notin SeqToSet(upsertBy))
        updateSql == Join([i \in 1..Len(updateCols) |->
                             quoteIdentifier(updateCols[i]) \o " = EXCLUDED."
                             \o quoteIdentifier(updateCols[i])], ", ")
    IN IF Len(columns) = 0 THEN Thrown("Seed row has no columns.")
       ELSE IF Len(upsertBy) = 0 THEN Built(sql \o ";")
       ELSE IF Len(updateCols) = 0
            THEN Built(sql \o " ON CONFLICT (" \o conflictCols \o ") DO NOTHING;")
       ELSE Built(sql \o " ON CONFLICT (" \o conflictCols \o ") DO UPDATE SET "
                  \o updateSql \o ";")

buildWhereSql(table, where) ==
    LET entries == ObjectEntries(where)
    IN IF Len(entries) = 0 THEN Thrown("Operation requires a non-empty \"where\" clause.")
       ELSE Built(Join([i \in 1..Len(entries) |->
                          IF entries[i].v.t = "null"
                          THEN quoteIdentifier(entries[i].k) \o " IS NULL"
                          ELSE quoteIdentifier(entries[i].k) \o " = "
                               \o toSqlValue(entries[i].v)], " AND "))

buildUpdateSql(table, set, where) ==
    LET setEntries == ObjectEntries(set)
        setSql == Join([i \in 1..Len(setEntries) |->
                          quoteIdentifier(setEntries[i].k) \o " = "
                          \o toSqlValue(setEntries[i].v)], ", ")
        whereSql == buildWhereSql(table, where)
    IN IF Len(setEntries) = 0
       THEN Thrown("Update operation requires a non-empty \"set\" object.")
       ELSE IF ~whereSql.ok THEN whereSql
       ELSE Built("UPDATE " \o quoteIdentifier(table) \o " SET " \o setSql
                  \o " WHERE " \o whereSql.sql \o ";")

buildDeleteSql(table, where) ==
    LET whereSql == buildWhereSql(table, where)
    IN IF ~whereSql.ok THEN whereSql
       ELSE Built("DELETE FROM " \o quoteIdentifier(table) \o " WHERE " \o whereSql.sql \o ";")

\* the SELECT of resolveSeedRef
RefSelectSql(ref) ==
    LET column == Coalesce(ref.column, "id")
        w == ObjectEntries(ref.where)
        whereClauses == [i \in 1..Len(w) |->
                           quoteIdentifier(w[i].k) \o " = " \o toSqlValue(w[i].v)]
        whereSql == IF Len(whereClauses) > 0
                    THEN " WHERE " \o Join(whereClauses, " AND ") ELSE ""
    IN "SELECT " \o quoteIdentifier(column) \o " FROM " \o quoteIdentifier(ref.table)
       \o whereSql \o " LIMIT 1;"

\* /^-?\d+$/.test(value) on the outputs the model uses
IsIntegerText(value) == value \in {"42"}

\* the value resolveSeedRef returns for a non-empty trimmed output
RefValue(value) == IF IsIntegerText(value) THEN SBigInt(value) ELSE SText(value)

\* the refs of a row, in the order resolveSeedRow meets them
RefsOf(row) ==
    LET r == ObjectEntries(row)
        hits == SelectSeq(r, LAMBDA e : isSeedRef(e.v))
    IN [i \in 1..Len(hits) |-> hits[i].v.ref]

RECURSIVE FillRefs(_, _)
\* resolved[key] = the value awaited for a ref, else the value itself
FillRefs(entries, bound) ==
    IF entries = <<>> THEN <<>>
    ELSE IF isSeedRef(Head(entries).v)
         THEN <<Entry(Head(entries).k, Head(bound))>> \o FillRefs(Tail(entries), Tail(bound))
         ELSE <<Head(entries)>> \o FillRefs(Tail(entries), bound)

\* resolveSeedRow, given the values its SELECTs returned
resolveSeedRow(row, bound) == FillRefs(ObjectEntries(row), bound)

\* where in the seed file a step comes from: the label of its database scope
\* ('default' or the databases key), tables | operations, the position of the
\* operation (0 in tables), the table and the position of the row (0: none)
At(label, section, index, table, row) ==
    [label |-> label, section |-> section, index |-> index, table |-> table, row |-> row]

\* the steps of the command: a subprocess to await (select: the SELECT of a ref,
\* insert | update | delete: the statement of a row or operation) or an error to throw
SelectStep(at, runtime, db, ref) ==
    [k |-> "select", at |-> at, runtime |-> runtime, db |-> db, table |-> ref.table,
     row |-> <<>>, upsertBy |-> <<>>, set |-> <<>>, where |-> <<>>, ref |-> ref,
     message |-> Undef]
InsertStep(at, runtime, db, table, row, upsertBy) ==
    [k |-> "insert", at |-> at, runtime |-> runtime, db |-> db, table |-> table,
     row |-> row, upsertBy |-> upsertBy, set |-> <<>>, where |-> <<>>, ref |-> NoRef,
     message |-> Undef]
UpdateStep(at, runtime, db, table, set, where) ==
    [k |-> "update", at |-> at, runtime |-> runtime, db |-> db, table |-> table,
     row |-> <<>>, upsertBy |-> <<>>, set |-> set, where |-> where, ref |-> NoRef,
     message |-> Undef]
DeleteStep(at, runtime, db, table, where) ==
    [k |-> "delete", at |-> at, runtime |-> runtime, db |-> db, table |-> table,
     row |-> <<>>, upsertBy |-> <<>>, set |-> <<>>, where |-> where, ref |-> NoRef,
     message |-> Undef]
ThrowStep(at, message) ==
    [k |-> "throw", at |-> at, runtime |-> NoRuntime, db |-> Undef, table |-> at.table,
     row |-> <<>>, upsertBy |-> <<>>, set |-> <<>>, where |-> <<>>, ref |-> NoRef,
     message |-> message]

RECURSIVE Flatten(_)
Flatten(seqs) == IF seqs = <<>> THEN <<>> ELSE Head(seqs) \o Flatten(Tail(seqs))

\* the awaits of resolveSeedRow(runtime, db, row): one SELECT per ref
RowSelects(at, runtime, db, row) ==
    LET refs == RefsOf(row)
    IN [i \in 1..Len(refs) |-> SelectStep(at, runtime, db, refs[i])]

\* for (const row of rows) { resolveSeedRow; buildInsertSql; runPsqlWithRuntime }
RowsSteps(section, index, runtime, db, table, rows, upsertBy) ==
    Flatten([r \in 1..Len(rows) |->
        LET at == At(Undef, section, index, table, r)
        IN RowSelects(at, runtime, db, rows[r])
           \o <<InsertStep(at, runtime, db, table, rows[r], upsertBy)>>])

\* faulty variant: upsertBy is used whatever the action
applyTableSeedsAnyAction(runtime, db, tables) ==
    LET ts == ObjectEntries(tables)
    IN Flatten([i \in 1..Len(ts) |->
        LET table == ts[i].k
            config == ts[i].v
            rows == config.rows
            action == Coalesce(config.action,
                               IF Len(config.upsertBy) > 0 THEN "upsert" ELSE "insert")
        IN IF Len(rows) = 0 THEN <<>>
           ELSE IF action \notin {"insert", "upsert"}
                THEN <<ThrowStep(At(Undef, "tables", 0, table, 0), "Invalid table action")>>
           ELSE RowsSteps("tables", 0, runtime, db, table, rows, config.upsertBy)])

applyTableSeeds(runtime, db, tables) ==
    LET ts == ObjectEntries(tables)
    IN Flatten([i \in 1..Len(ts) |->
        LET table == ts[i].k
            config == ts[i].v
            rows == config.rows
            action == Coalesce(config.action,
                               IF Len(config.upsertBy) > 0 THEN "upsert" ELSE "insert")
            upsertBy == IF action = "upsert" THEN config.upsertBy ELSE <<>>
        IN IF Len(rows) = 0 THEN <<>>
           ELSE IF action \notin {"insert", "upsert"}
                THEN <<ThrowStep(At(Undef, "tables", 0, table, 0), "Invalid table action")>>
           ELSE RowsSteps("tables", 0, runtime, db, table, rows, upsertBy)])

\* faulty variant: an item of an unknown type is skipped
applySeedOperationsSkipsUnknown(runtime, db, operations) ==
    Flatten([i \in 1..Len(operations) |->
        LET operation == operations[i]
            at == At(Undef, "operations", i, operation.table, 0)
        IN IF operation.table \in {Undef, ""}
           THEN <<ThrowStep(at, "Seed operation requires \"table\".")>>
           ELSE CASE operation.type \in {"insert", "upsert"} ->
                       IF Len(operation.rows) = 0
                       THEN <<ThrowStep(at, "Operation requires \"rows\".")>>
                       ELSE RowsSteps("operations", i, runtime, db, operation.table,
                                      operation.rows,
                                      IF operation.type = "upsert"
                                      THEN operation.upsertBy ELSE <<>>)
                  [] operation.type = "update" ->
                       IF ~operation.hasWhere \/ ~operation.hasSet
                       THEN <<ThrowStep(at, "Operation \"update\" requires \"where\" and \"set\".")>>
                       ELSE RowSelects(at, runtime, db, operation.where)
                            \o RowSelects(at, runtime, db, operation.set)
                            \o <<UpdateStep(at, runtime, db, operation.table,
                                            operation.set, operation.where)>>
                  [] operation.type = "delete" ->
                       IF ~operation.hasWhere
                       THEN <<ThrowStep(at, "Operation \"delete\" requires \"where\".")>>
                       ELSE RowSelects(at, runtime, db, operation.where)
                            \o <<DeleteStep(at, runtime, db, operation.table,
                                            operation.where)>>
                  [] OTHER -> <<>>])

applySeedOperations(runtime, db, operations) ==
    Flatten([i \in 1..Len(operations) |->
        LET operation == operations[i]
            at == At(Undef, "operations", i, operation.table, 0)
        IN IF operation.table \in {Undef, ""}
           THEN <<ThrowStep(at, "Seed operation requires \"table\".")>>
           ELSE CASE operation.type \in {"insert", "upsert"} ->
                       IF Len(operation.rows) = 0
                       THEN <<ThrowStep(at, "Operation requires \"rows\".")>>
                       ELSE RowsSteps("operations", i, runtime, db, operation.table,
                                      operation.rows,
                                      IF operation.type = "upsert"
                                      THEN operation.upsertBy ELSE <<>>)
                  [] operation.type = "update" ->
                       IF ~operation.hasWhere \/ ~operation.hasSet
                       THEN <<ThrowStep(at, "Operation \"update\" requires \"where\" and \"set\".")>>
                       ELSE RowSelects(at, runtime, db, operation.where)
                            \o RowSelects(at, runtime, db, operation.set)
                            \o <<UpdateStep(at, runtime, db, operation.table,
                                            operation.set, operation.where)>>
                  [] operation.type = "delete" ->
                       IF ~operation.hasWhere
                       THEN <<ThrowStep(at, "Operation \"delete\" requires \"where\".")>>
                       ELSE RowSelects(at, runtime, db, operation.where)
                            \o <<DeleteStep(at, runtime, db, operation.table,
                                            operation.where)>>
                  [] OTHER -> <<ThrowStep(at, "Unsupported seed operation type")>>])

applyYamlSeedForDatabase(runtime, db, tables, operations, label) ==
    LET steps == IF Len(tables) = 0 /\ Len(operations) = 0 THEN <<>>
                 ELSE (IF Len(tables) > 0 THEN applyTableSeeds(runtime, db, tables) ELSE <<>>)
                      \o (IF Len(operations) > 0
                          THEN applySeedOperations(runtime, db, operations) ELSE <<>>)
    IN [i \in 1..Len(steps) |-> [steps[i] EXCEPT !.at.label = label]]

\* the steps applyYamlSeed goes through when every subprocess succeeds
applyYamlSeed(options, defaultDb, seed, cfgEnv, env) ==
    LET globalVariables == seed.variables
        hasDefaultPayload == Len(seed.tables) > 0 \/ Len(seed.operations) > 0
        hasDatabasesPayload == Len(seed.databases) > 0
        dbs == ObjectEntries(seed.databases)
    IN (IF hasDefaultPayload
        THEN applyYamlSeedForDatabase(
                 resolvePostgresRuntime(options, defaultDb, cfgEnv, env), defaultDb,
                 ApplyVarsTables(seed.tables, globalVariables),
                 ApplyVarsOperations(seed.operations, globalVariables), "default")
        ELSE <<>>)
       \o
       (IF hasDatabasesPayload
        THEN Flatten([i \in 1..Len(dbs) |->
                LET databaseKey == dbs[i].k
                    dbConfig == dbs[i].v
                    dbName == Coalesce(dbConfig.db, databaseKey)
                    target == Coalesce(dbConfig.target, databaseKey)
                    runtime == resolvePostgresRuntime(
                                   [service |-> options.service, user |-> options.user,
                                    adminDb |-> Undef, composeDir |-> options.composeDir,
                                    target |-> target], target, cfgEnv, env)
                    mergedVariables == MergeVariables(globalVariables, dbConfig.variables)
                IN applyYamlSeedForDatabase(runtime, dbName,
                       ApplyVarsTables(dbConfig.tables, mergedVariables),
                       ApplyVarsOperations(dbConfig.operations, mergedVariables),
                       databaseKey)])
        ELSE <<>>)

----------------------------------------------------------------------------
(* shell-virtual postgres seed-yaml: the command *)

Table(name, action, upsertBy, rows) ==
    Entry(name, [action |-> action, upsertBy |-> upsertBy, rows |-> rows])

Operation(type, table, rows, upsertBy, hasWhere, where, hasSet, set) ==
    [type |-> type, table |-> table, rows |-> rows, upsertBy |-> upsertBy,
     hasWhere |-> hasWhere, where |-> where, hasSet |-> hasSet, set |-> set]

Database(key, db, target, variables, tables, operations) ==
    Entry(key, [db |-> db, target |-> target, variables |-> variables,
                tables |-> tables, operations |-> operations])

RowP1 == <<Entry("code", SText("P1")), Entry("name", SVar("tenant"))>>
RowP2 == <<Entry("code", SText("P2"))>>
RowP3 == <<Entry("code", SText("P3")), Entry("region", SVar("region"))>>
RowA1 == <<Entry("number", SNum("100")),
           Entry("party_id", SRef("Party", <<Entry("code", SText("P1"))>>, Undef))>>

TableSets ==
    { <<>>,
      <<Table("Party", Undef, <<"code">>, <<RowP1, RowP2, RowP3>>)>>,
      <<Table("Party", Undef, <<"code">>, <<RowP1>>), Table("Account", "insert", <<>>, <<RowA1>>)>>,
      <<Table("Party", "upsert", <<"code">>, <<RowP2>>), Table("2024", Undef, <<>>, <<RowP1>>)>>,
      <<Table("Audit", Undef, <<>>, <<>>), Table("Party", "replace", <<>>, <<RowP2>>)>>,
      <<Table("Party", Undef, <<"code">>, <<RowP1>>), Table("Audit", "replace", <<>>, <<>>),
        Table("Ledger", "insert", <<"code">>, <<RowP1>>),
        Table("Account", "upsert", <<>>, <<RowP2>>)>> }

OpUpdate == Operation("update", "Party", <<>>, <<>>, TRUE, <<Entry("code", SText("P1"))>>,
                      TRUE, <<Entry("name", SVar("tenant"))>>)
OpDelete == Operation("delete", "Account", <<>>, <<>>, TRUE,
                      <<Entry("closed_at", SNull)>>, FALSE, <<>>)
OpInsert == Operation("insert", "Party", <<RowP2>>, <<>>, FALSE, <<>>, FALSE, <<>>)
OpMerge == Operation("merge", "Party", <<RowP2>>, <<>>, FALSE, <<>>, FALSE, <<>>)
OpDeleteAll == Operation("delete", "Party", <<>>, <<>>, TRUE, <<>>, FALSE, <<>>)

OperationSets ==
    { <<>>, <<OpUpdate, OpDelete>>, <<OpInsert, OpMerge, OpDelete>>, <<OpDeleteAll, OpInsert>> }

OpUpsert == Operation("upsert", "Party", <<RowP1>>, <<"code">>, FALSE, <<>>, FALSE, <<>>)
OpNoTable == Operation("insert", Undef, <<RowP2>>, <<>>, FALSE, <<>>, FALSE, <<>>)
OpNoRows == Operation("upsert", "Party", <<>>, <<"code">>, FALSE, <<>>, FALSE, <<>>)
OpUpdateNoSet == Operation("update", "Party", <<>>, <<>>, TRUE, <<Entry("code", SText("P1"))>>,
                           FALSE, <<>>)
OpUpdateNoWhere == Operation("update", "Account", <<>>, <<>>, FALSE, <<>>, TRUE, RowA1)
OpDeleteNoWhere == Operation("delete", "Party", <<>>, <<>>, FALSE, <<>>, FALSE, <<>>)

\* operation lists with one item that lacks something its type requires
BrokenOperationSets ==
    { <<OpInsert, OpUpsert, OpUpdate, OpDelete>>,
      <<OpUpsert, OpNoTable, OpInsert>>,
      <<OpInsert, OpNoRows, OpDelete>>,
      <<OpUpdate, OpUpdateNoSet, OpInsert>>,
      <<OpUpdateNoWhere, OpInsert>>,
      <<OpDelete, OpDeleteNoWhere, OpInsert>> }

DatabaseSets ==
    { <<>>,
      <<Database("api_wallet", Undef, Undef, <<Entry("tenant", SText("wallet"))>>,
                 <<Table("Party", Undef, <<"code">>, <<RowP1>>)>>, <<>>)>>,
      <<Database("api_wallet", "wallet", Undef, <<>>,
                 <<Table("Party", Undef, <<>>, <<RowP2>>)>>, <<OpDelete>>),
        Database("api_affiliations", Undef, "api_wallet", <<>>, <<>>, <<OpInsert>>)>>,
      <<Database("api_wallet", Undef, Undef, <<>>,
                 <<Table("Party", Undef, <<>>, <<RowP2>>)>>, <<>>),
        Database("7", Undef, Undef, <<>>, <<>>, <<OpInsert>>)>>,
      <<Database("api_wallet", Undef, Undef,
                 <<Entry("tenant", SText("wallet")), Entry("region", SText("eu"))>>,
                 <<Table("Party", Undef, <<>>, <<RowP1, RowP3>>)>>, <<>>),
        Database("api_affiliations", Undef, "api_wallet", <<>>,
                 <<Table("Party", Undef, <<>>, <<RowP1, RowP3>>)>>, <<OpUpdate>>)>> }

SeedFiles ==
    { NullSeed } \cup
    { [isNull |-> FALSE, variables |-> <<Entry("tenant", SText("acme"))>>,
       tables |-> ts, operations |-> os, databases |-> ds] :
        ts \in TableSets, os \in OperationSets, ds \in DatabaseSets }
    \cup
    { [isNull |-> FALSE, variables |-> <<Entry("tenant", SText("acme"))>>,
       tables |-> <<>>, operations |-> os,
       databases |-> <<Database("api_wallet", Undef, Undef, <<>>, <<>>, <<OpInsert>>)>>] :
        os \in BrokenOperationSets }

SeedConfigEnvs ==
    { NoConfigEnv,
      [NoConfigEnv EXCEPT !.databases["api_wallet"] =
          [NoPgConfig EXCEPT !.defined = TRUE, !.mode = "direct", !.host = "wallet-db"]],
      [NoConfigEnv EXCEPT !.databases["api_wallet"] =
          [NoPgConfig EXCEPT !.defined = TRUE, !.mode = "direct"]] }

\* stdout of a SELECT subprocess
SelectOutputs == {"\n", "42\n", " P-1\n"}

\* the steps of the running command
SeedSteps ==
    applyYamlSeed(CommandOptions("seed-yaml", sdFlags, NoProcessEnv), sdDb, sdSeed,
                  sdConfigEnv, NoProcessEnv)

SeedStep == SeedSteps[sdCursor]

\* the SQL of the step the command is at, from the values its refs resolved to
StepSql(step, bound) ==
    CASE step.k = "select" -> Built(RefSelectSql(step.ref))
      [] step.k = "insert" ->
            buildInsertSql(step.table, resolveSeedRow(step.row, bound), step.upsertBy)
      [] step.k = "update" ->
            LET n == Len(RefsOf(step.where))
            IN buildUpdateSql(step.table,
                              resolveSeedRow(step.set, SubSeq(bound, n + 1, Len(bound))),
                              resolveSeedRow(step.where, SubSeq(bound, 1, n)))
      [] step.k = "delete" -> buildDeleteSql(step.table, resolveSeedRow(step.where, bound))
      [] OTHER -> Thrown(step.message)

\* runPsqlWithRuntime / runPsqlWithRuntimeCapture refuse direct mode without a host
MissingHost(runtime) == runtime.mode = "direct" /\ runtime.host = Undef

InitSeed ==
    /\ ServerIdle
    /\ LoaderIdle
    /\ RouteIdle
    /\ RuntimeIdle
    /\ DbIdle
    /\ OsIdle
    /\ EnvIdle
    /\ InterpIdle
    /\ BulkIdle
    /\ sdSeed \in SeedFiles
    /\ sdDb \in {"postgres"}
    /\ sdFlags \in {NoFlags, [NoFlags EXCEPT !.target = "api_wallet"]}
    /\ sdConfigEnv \in SeedConfigEnvs
    /\ sdCursor = 1
    /\ sdBound = <<>>
    /\ sdLog = <<>>
    /\ sdExitCode = 0
    /\ sdError = Undef
    /\ sdPc = "running"

SeedFrame == UNCHANGED <<sdSeed, sdDb, sdFlags, sdConfigEnv, serverVars, loaderVars,
                         routeVars, runtimeVars, dbVars, osVars, envVars,
        bulkVars, interpVars>>

\* runCommand: spawn(command, args) for the statement the command has reached
SeedSpawn ==
    /\ sdPc = "running"
    /\ sdCursor <= Len(SeedSteps)
    /\ SeedStep.k # "throw"
    /\ StepSql(SeedStep, sdBound).ok
    /\ ~MissingHost(SeedStep.runtime)
    /\ sdLog' = Append(sdLog, [at |-> SeedStep.at, kind |-> SeedStep.k, db |-> SeedStep.db,
                               runtime |-> SeedStep.runtime,
                               sql |-> StepSql(SeedStep, sdBound).sql, exit |-> NoNum,
                               out |-> Undef])
    /\ sdPc' = "waiting"
    /\ UNCHANGED <<sdCursor, sdBound, sdExitCode, sdError>>
    /\ SeedFrame

\* faulty variant: a failed statement is logged and the seed goes on
SeedChildCloseLenient ==
    /\ sdPc = "waiting"
    /\ \E code \in {0, 1} :
        /\ sdLog' = [sdLog EXCEPT ![Len(sdLog)].exit = code]
        /\ sdCursor' = sdCursor + 1
        /\ sdBound' = <<>>
        /\ sdPc' = "running"
        /\ UNCHANGED <<sdExitCode, sdError>>
    /\ SeedFrame

\* faulty variant: a SELECT without output resolves the ref to the empty string
SeedChildCloseBindsEmpty ==
    /\ sdPc = "waiting"
    /\ \E code \in {0, 1}, stdout \in SelectOutputs :
        /\ (SeedStep.k # "select" \/ code # 0) => stdout = "\n"
        /\ sdLog' = [sdLog EXCEPT ![Len(sdLog)].exit = code, ![Len(sdLog)].out = stdout]
        /\ IF code # 0
           THEN /\ sdPc' = "failed"
                /\ sdExitCode' = 1
                /\ sdError' = "Command failed"
                /\ UNCHANGED <<sdCursor, sdBound>>
           ELSE /\ sdPc' = "running"
                /\ sdCursor' = sdCursor + 1
                /\ sdBound' = IF SeedStep.k = "select"
                              THEN Append(sdBound, RefValue(trim(stdout))) ELSE <<>>
                /\ UNCHANGED <<sdExitCode, sdError>>
    /\ SeedFrame

\* child.on('close'): the promise of runCommand settles with the captured stdout; a
\* rejection reaches the catch of the action, a resolution lets the loop go on
SeedChildClose ==
    /\ sdPc = "waiting"
    /\ \E code \in {0, 1}, stdout \in SelectOutputs :
        /\ (SeedStep.k # "select" \/ code # 0) => stdout = "\n"
        /\ sdLog' = [sdLog EXCEPT ![Len(sdLog)].exit = code, ![Len(sdLog)].out = stdout]
        /\ IF code # 0
           THEN /\ sdPc' = "failed"
                /\ sdExitCode' = 1
                /\ sdError' = "Command failed"
                /\ UNCHANGED <<sdCursor, sdBound>>
           ELSE IF SeedStep.k = "select" /\ trim(stdout) = ""
           THEN /\ sdPc' = "failed"
                /\ sdExitCode' = 1
                /\ sdError' = "Seed ref not found"
                /\ UNCHANGED <<sdCursor, sdBound>>
           ELSE /\ sdPc' = "running"
                /\ sdCursor' = sdCursor + 1
                /\ sdBound' = IF SeedStep.k = "select"
                              THEN Append(sdBound, RefValue(trim(stdout))) ELSE <<>>
                /\ UNCHANGED <<sdExitCode, sdError>>
    /\ SeedFrame

\* an error thrown without a subprocess: validation, a builder, or a missing host
SeedThrow ==
    /\ sdPc = "running"
    /\ sdCursor <= Len(SeedSteps)
    /\ \/ SeedStep.k = "throw"
       \/ ~StepSql(SeedStep, sdBound).ok
       \/ MissingHost(SeedStep.runtime)
    /\ sdError' = IF SeedStep.k # "throw" /\ StepSql(SeedStep, sdBound).ok
                  THEN "Missing Postgres host for direct mode."
                  ELSE StepSql(SeedStep, sdBound).message
    /\ sdExitCode' = 1
    /\ sdPc' = "failed"
    /\ UNCHANGED <<sdCursor, sdBound, sdLog>>
    /\ SeedFrame

\* applyYamlSeed returns
SeedReturn ==
    /\ sdPc = "running"
    /\ sdCursor > Len(SeedSteps)
    /\ sdPc' = "done"
    /\ UNCHANGED <<sdCursor, sdBound, sdLog, sdExitCode, sdError>>
    /\ SeedFrame

NextSeed == SeedSpawn \/ SeedChildClose \/ SeedThrow \/ SeedReturn

SpecSeed == InitSeed /\ [][NextSeed]_vars

\* the rows and operations of the seed file in the order the document writes them
DocRows(label, section, index, table, rows) ==
    [r \in 1..Len(rows) |-> At(label, section, index, table, r)]

DocTables(label, tables) ==
    Flatten([i \in 1..Len(tables) |->
               DocRows(label, "tables", 0, tables[i].k, tables[i].v.rows)])

DocOperations(label, operations) ==
    Flatten([i \in 1..Len(operations) |->
               IF operations[i].type \in {"insert", "upsert"}
               THEN DocRows(label, "operations", i, operations[i].table, operations[i].rows)
               ELSE <<At(label, "operations", i, operations[i].table, 0)>>])

DocumentOrder(seed) ==
    DocTables("default", seed.tables) \o DocOperations("default", seed.operations)
    \o Flatten([d \in 1..Len(seed.databases) |->
                  DocTables(seed.databases[d].k, seed.databases[d].v.tables)
                  \o DocOperations(seed.databases[d].k, seed.databases[d].v.operations)])

RECURSIVE Collapse(_)
\* a sequence without its immediate repetitions
Collapse(q) ==
    IF Len(q) <= 1 THEN q
    ELSE IF q[1] = q[2] THEN Collapse(Tail(q))
    ELSE <<q[1]>> \o Collapse(Tail(q))

IsPrefix(a, b) == Len(a) <= Len(b) /\ SubSeq(b, 1, Len(a)) = a

\* the rows and operations the command has issued subprocesses for, in order
LogPositions == Collapse([i \in 1..Len(sdLog) |-> sdLog[i].at])

\* a subprocess is spawned only when every earlier one has exited with code 0
SeedSequential ==
    \A i \in 1..Len(sdLog) :
        /\ i < Len(sdLog) => sdLog[i].exit = 0
        /\ sdLog[i].exit = NoNum => sdPc = "waiting"

\* C3: seed-yaml runs its statements one after another in document order: the
\* top-level tables (rows in order), then the top-level operations, then each
\* databases entry in document order, tables before operations; a statement starts
\* only after the previous subprocess exited with code 0.
C3_SequentialDocumentOrder ==
    sdPc # "off" =>
        /\ SeedSequential
        /\ IsPrefix(LogPositions, DocumentOrder(sdSeed))
        /\ sdPc = "done" => LogPositions = DocumentOrder(sdSeed)

\* no name of a table or of a databases entry is an array index
PlainKeys(seed) ==
    /\ \A i \in 1..Len(seed.tables) : ~IsArrayIndex(seed.tables[i].k)
    /\ \A d \in 1..Len(seed.databases) :
          /\ ~IsArrayIndex(seed.databases[d].k)
          /\ \A i \in 1..Len(seed.databases[d].v.tables) :
                ~IsArrayIndex(seed.databases[d].v.tables[i].k)

\* C3 on seed files whose table and database names are not array indices
C3_OrderWithPlainKeys ==
    (sdPc # "off" /\ PlainKeys(sdSeed)) =>
        /\ SeedSequential
        /\ IsPrefix(LogPositions, DocumentOrder(sdSeed))
        /\ sdPc = "done" => LogPositions = DocumentOrder(sdSeed)

\* C4: when the subprocess of a statement exits with a non-zero code, no later
\* statement is run, nothing is run to undo the earlier ones, and the command ends
\* with process.exitCode = 1.
C4_SubprocessErrorPropagates ==
    \A i \in 1..Len(sdLog) :
        sdLog[i].exit \notin {0, NoNum} =>
            /\ i = Len(sdLog)
            /\ \A j \in 1..(i - 1) : sdLog[j].exit = 0
            /\ sdPc = "failed"
            /\ sdExitCode = 1
            /\ sdError = "Command failed"

\* a statement failed after others had run, with statements of a later databases
\* entry still to come
C4_Witness ==
    /\ sdPc = "failed"
    /\ Len(sdLog) >= 2
    /\ sdLog[Len(sdLog)].exit = 1
    /\ sdCursor < Len(SeedSteps)
    /\ SeedSteps[Len(SeedSteps)].k # "throw"
    /\ SeedSteps[Len(SeedSteps)].at.label # sdLog[Len(sdLog)].at.label

----------------------------------------------------------------------------
(* shell-virtual postgres create-db / drop-db *)

\* attempts of waitForPostgresCompose / waitForPostgresDirect as the actions call them
WaitAttempts == 30

DbName == "api_wallet"

\* --schema-file and --schema-dir as written on the command line (Undef: not given);
\* the schema files of the model are .sql files
SchemaFlags ==
    { <<Undef, Undef>>, <<"schema.sql", Undef>>, <<"missing.sql", Undef>>,
      <<"schema.sql", "sql">>, <<Undef, "sql">>, <<Undef, "docs">>, <<Undef, "nodir">> }

\* fs.readdir(dir) on the directories of the model, in the order the file system
\* lists them
readdir(dir) ==
    CASE dir = "sql" -> <<"b.sql", "README.md", "a.SQL">>
      [] OTHER -> <<"README.md">>

\* fs.readdir rejects: the directory does not exist
ReaddirThrows(dir) == dir = "nodir"

\* lower.endsWith('.sql') || lower.endsWith('.prisma') on the file names of the model
IsSchemaName(name) == name \in {"a.SQL", "b.sql", "schema.sql", "missing.sql"}

\* position of a name in the order of Array.prototype.sort (UTF-16 code units)
CodeUnitRank(name) ==
    CASE name = "README.md" -> 1
      [] name = "a.SQL" -> 2
      [] name = "b.sql" -> 3
      [] OTHER -> 4

\* entries.filter(...).sort()
SchemaFilesIn(dir) ==
    SortSeq(SelectSeq(readdir(dir), IsSchemaName),
            LAMBDA a, b : CodeUnitRank(a) < CodeUnitRank(b))

\* fs.readFile resolves
Readable(file) == file # "missing.sql"

DbFrame == UNCHANGED <<dbCommand, dbOptions, dbConfigEnv, serverVars, loaderVars, routeVars,
                       runtimeVars, seedVars, osVars, envVars,
        bulkVars, interpVars>>

InitDb ==
    /\ ServerIdle
    /\ LoaderIdle
    /\ RouteIdle
    /\ RuntimeIdle
    /\ SeedIdle
    /\ OsIdle
    /\ EnvIdle
    /\ InterpIdle
    /\ BulkIdle
    /\ dbCommand \in {"create-db", "drop-db"}
    /\ dbOptions \in { [drop |-> d, yes |-> y, schemaFile |-> f[1], schemaDir |-> f[2]] :
                         d \in (IF dbCommand = "create-db" THEN BOOLEAN ELSE {FALSE}),
                         y \in BOOLEAN,
                         f \in (IF dbCommand = "create-db" THEN SchemaFlags
                                ELSE {<<Undef, Undef>>}) }
    /\ dbSchemaFiles = <<>>
    /\ dbConfigEnv \in SeedConfigEnvs
    /\ dbExists \in BOOLEAN
    /\ dbRuntime = NoRuntime
    /\ dbAttempt = 0
    /\ dbLog = <<>>
    /\ dbExitCode = 0
    /\ dbError = Undef
    /\ dbPc = "start"

\* the catch of the action
DbFail(message) ==
    /\ dbPc' = "failed"
    /\ dbExitCode' = 1
    /\ dbError' = message

\* the subprocess log after a subprocess of this kind ran and exited with this code
Spawned(kind, code) == Append(dbLog, [kind |-> kind, exit |-> code, about |-> Undef])

\* the same for a subprocess whose output or input matters: the stdout of the existence
\* query ("1" or nothing), the schema file piped to psql
SpawnedAbout(kind, code, about) ==
    Append(dbLog, [kind |-> kind, exit |-> code, about |-> about])

\* faulty variant: the action goes on without looking at --yes
DbBeginUnconfirmed ==
    /\ dbPc = "start"
    /\ dbRuntime' = resolvePostgresRuntime(CommandOptions(dbCommand, NoFlags, NoProcessEnv),
                                           DbName, dbConfigEnv, NoProcessEnv)
    /\ IF MissingHost(dbRuntime')
       THEN DbFail("Missing Postgres host for direct mode.")
       ELSE dbPc' = "probe" /\ UNCHANGED <<dbExitCode, dbError>>
    /\ UNCHANGED <<dbExists, dbAttempt, dbSchemaFiles, dbLog>>
    /\ DbFrame

\* the action up to its first await: the runtime, the --yes check, the host check
DbBegin ==
    /\ dbPc = "start"
    /\ dbRuntime' = resolvePostgresRuntime(CommandOptions(dbCommand, NoFlags, NoProcessEnv),
                                           DbName, dbConfigEnv, NoProcessEnv)
    /\ IF (dbCommand = "drop-db" \/ dbOptions.drop) /\ ~dbOptions.yes
       THEN DbFail("Use --yes to confirm dropping the database.")
       ELSE IF MissingHost(dbRuntime')
       THEN DbFail("Missing Postgres host for direct mode.")
       ELSE dbPc' = "probe" /\ UNCHANGED <<dbExitCode, dbError>>
    /\ UNCHANGED <<dbExists, dbAttempt, dbSchemaFiles, dbLog>>
    /\ DbFrame

\* one turn of the loop of waitForPostgres*: pg_isready or `select 1;`
DbProbe ==
    /\ dbPc = "probe"
    /\ \E code \in {0, 1} :
        /\ dbLog' = Spawned("probe", code)
        /\ IF code = 0
           THEN /\ dbPc' = IF dbCommand = "drop-db" \/ dbOptions.drop
                           THEN "exists-before-drop" ELSE "exists"
                /\ UNCHANGED <<dbAttempt, dbExitCode, dbError>>
           ELSE IF dbAttempt = WaitAttempts - 1
           THEN DbFail("Command failed") /\ UNCHANGED dbAttempt
           ELSE /\ dbAttempt' = dbAttempt + 1
                /\ UNCHANGED <<dbPc, dbExitCode, dbError>>
    /\ UNCHANGED <<dbExists, dbRuntime, dbSchemaFiles>>
    /\ DbFrame

\* stdout of the existence query when psql exits with this code
ExistsOutput(code) == IF code = 0 /\ dbExists THEN "1" ELSE ""

\* faulty variant: a database that already exists gets no schema
DbExistsCheckSkipsSchema ==
    /\ dbPc \in {"exists-before-drop", "exists"}
    /\ \E code \in {0, 1} :
        /\ dbLog' = SpawnedAbout("exists", code, ExistsOutput(code))
        /\ IF code # 0
           THEN DbFail("Command failed")
           ELSE /\ dbPc' = IF dbPc = "exists-before-drop"
                           THEN (IF dbExists THEN "drop"
                                 ELSE IF dbCommand = "drop-db" THEN "done" ELSE "exists")
                           ELSE (IF dbExists THEN "done" ELSE "create")
                /\ UNCHANGED <<dbExitCode, dbError>>
    /\ UNCHANGED <<dbExists, dbRuntime, dbAttempt, dbSchemaFiles>>
    /\ DbFrame

\* databaseExists*: SELECT 1 FROM pg_database WHERE datname = <name>
DbExistsCheck ==
    /\ dbPc \in {"exists-before-drop", "exists"}
    /\ \E code \in {0, 1} :
        /\ dbLog' = SpawnedAbout("exists", code, ExistsOutput(code))
        /\ IF code # 0
           THEN DbFail("Command failed")
           ELSE /\ dbPc' = IF dbPc = "exists-before-drop"
                           THEN (IF dbExists THEN "drop"
                                 ELSE IF dbCommand = "drop-db" THEN "done" ELSE "exists")
                           ELSE (IF dbExists THEN "schema" ELSE "create")
                /\ UNCHANGED <<dbExitCode, dbError>>
    /\ UNCHANGED <<dbExists, dbRuntime, dbAttempt, dbSchemaFiles>>
    /\ DbFrame

\* dropDatabase*: DROP DATABASE "<name>";
DbDrop ==
    /\ dbPc = "drop"
    /\ \E code \in {0, 1} :
        /\ dbLog' = Spawned("drop", code)
        /\ IF code # 0
           THEN DbFail("Command failed") /\ UNCHANGED dbExists
           ELSE /\ dbExists' = FALSE
                /\ dbPc' = IF dbCommand = "drop-db" THEN "done" ELSE "exists"
                /\ UNCHANGED <<dbExitCode, dbError>>
    /\ UNCHANGED <<dbRuntime, dbAttempt, dbSchemaFiles>>
    /\ DbFrame

\* createDatabase*: CREATE DATABASE "<name>";
DbCreate ==
    /\ dbPc = "create"
    /\ \E code \in {0, 1} :
        /\ dbLog' = Spawned("create", code)
        /\ IF code # 0
           THEN DbFail("Command failed") /\ UNCHANGED dbExists
           ELSE /\ dbExists' = TRUE
                /\ dbPc' = "schema"
                /\ UNCHANGED <<dbExitCode, dbError>>
    /\ UNCHANGED <<dbRuntime, dbAttempt, dbSchemaFiles>>
    /\ DbFrame

\* applySchemaFiles up to its first subprocess: --schema-file wins over --schema-dir;
\* the directory is read, filtered and sorted
DbSchema ==
    /\ dbPc = "schema"
    /\ IF dbOptions.schemaFile \notin {Undef, ""}
       THEN /\ dbSchemaFiles' = <<dbOptions.schemaFile>>
            /\ dbPc' = "schema-file"
            /\ UNCHANGED <<dbExitCode, dbError>>
       ELSE IF dbOptions.schemaDir \in {Undef, ""}
       THEN /\ dbPc' = "done"
            /\ UNCHANGED <<dbSchemaFiles, dbExitCode, dbError>>
       ELSE IF ReaddirThrows(dbOptions.schemaDir)
       THEN DbFail("ENOENT: no such file or directory") /\ UNCHANGED dbSchemaFiles
       ELSE /\ dbSchemaFiles' = SchemaFilesIn(dbOptions.schemaDir)
            /\ dbPc' = IF dbSchemaFiles' = <<>> THEN "done" ELSE "schema-file"
            /\ UNCHANGED <<dbExitCode, dbError>>
    /\ UNCHANGED <<dbExists, dbRuntime, dbAttempt, dbLog>>
    /\ DbFrame

\* applySchemaFromFile on a .sql file: readFile, then psql with the file's text
DbSchemaFile ==
    /\ dbPc = "schema-file"
    /\ IF ~Readable(Head(dbSchemaFiles))
       THEN DbFail("ENOENT: no such file or directory") /\ UNCHANGED <<dbSchemaFiles, dbLog>>
       ELSE \E code \in {0, 1} :
            /\ dbLog' = SpawnedAbout("schema", code, Head(dbSchemaFiles))
            /\ IF code # 0
               THEN DbFail("Command failed") /\ UNCHANGED dbSchemaFiles
               ELSE /\ dbSchemaFiles' = Tail(dbSchemaFiles)
                    /\ dbPc' = IF dbSchemaFiles' = <<>> THEN "done" ELSE "schema-file"
                    /\ UNCHANGED <<dbExitCode, dbError>>
    /\ UNCHANGED <<dbExists, dbRuntime, dbAttempt>>
    /\ DbFrame

NextDb ==
    DbBegin \/ DbProbe \/ DbExistsCheck \/ DbDrop \/ DbCreate \/ DbSchema \/ DbSchemaFile

SpecDb == InitDb /\ [][NextDb]_vars

\* the command asks for a drop: drop-db, or create-db --drop
DropRequested == dbCommand = "drop-db" \/ dbOptions.drop

\* C5: without --yes, drop-db and create-db --drop fail with 'Use --yes to confirm
\* dropping the database.' and exit code 1 before any subprocess is spawned, and no
\* DROP is ever issued without --yes.
C5_NoDropWithoutYes ==
    dbPc # "off" =>
        /\ (DropRequested /\ ~dbOptions.yes) =>
              /\ dbLog = <<>>
              /\ dbPc \in {"start", "failed"}
              /\ dbPc = "failed" =>
                    /\ dbExitCode = 1
                    /\ dbError = "Use --yes to confirm dropping the database."
        /\ \A i \in 1..Len(dbLog) : dbLog[i].kind = "drop" => dbOptions.yes

\* create-db --drop without --yes has failed on a database that exists
C5_Witness ==
    /\ dbCommand = "create-db"
    /\ dbOptions.drop
    /\ ~dbOptions.yes
    /\ dbExists
    /\ dbPc = "failed"

----------------------------------------------------------------------------
(* shell-virtual opensearch delete / delete-all *)

\* process.env.OPENSEARCH_URL || 'http://localhost:9200', OPENSEARCH_URL unset
DEFAULT_OPENSEARCH_URL == "http://localhost:9200"

\* options.endpoint: --endpoint is declared with DEFAULT_OPENSEARCH_URL as its default
EndpointOption(flag) == Coalesce(flag, DEFAULT_OPENSEARCH_URL)

\* value ?? config.env?.opensearch?.url ?? DEFAULT_OPENSEARCH_URL
resolveEndpoint(value, configUrl) ==
    Coalesce(value, Coalesce(configUrl, DEFAULT_OPENSEARCH_URL))

\* .replace(/\/$/, '') on the URLs the model uses
StripSlash(url) == IF url = "http://os.dev:9200/" THEN "http://os.dev:9200" ELSE url

\* faulty variant: any answer that starts with y or Y confirms
confirmActionPrefix(answer) == answer \in {"y", "Y", "yes", "YES", "Y "}

\* what confirmAction resolves to for the line typed at the prompt
confirmAction(answer) == toLowerCase(trim(answer)) = "y"

\* the lines a user can type
Answers == {"y", "Y", " y ", "Y ", "yes", "YES", "n", " n", "N", ""}

\* the request each command sends
DeleteRequest(command, base) ==
    IF command = "delete"
    THEN [method |-> "DELETE", url |-> base \o "/operations/_doc/op-1"]
    ELSE [method |-> "POST", url |-> base \o "/operations/_delete_by_query"]

OsFrame == UNCHANGED <<osCommand, osYes, osEndpoint, osConfigUrl, serverVars, loaderVars,
                       routeVars, runtimeVars, seedVars, dbVars, envVars,
        bulkVars, interpVars>>

InitOs ==
    /\ ServerIdle
    /\ LoaderIdle
    /\ RouteIdle
    /\ RuntimeIdle
    /\ SeedIdle
    /\ DbIdle
    /\ EnvIdle
    /\ InterpIdle
    /\ BulkIdle
    /\ osCommand \in {"delete", "delete-all"}
    /\ osYes \in BOOLEAN
    /\ osEndpoint \in {Undef, "http://os.dev:9200/"}
    /\ osConfigUrl \in {Undef, "http://os.cfg:9200"}
    /\ osAnswer = Undef
    /\ osRequests = <<>>
    /\ osOutput = <<>>
    /\ osExitCode = 0
    /\ osPc = "start"

\* resolveEndpoint, the URL, and the call of axios.delete / axios.post
OsSend ==
    /\ osRequests' = Append(osRequests,
          DeleteRequest(osCommand,
              StripSlash(resolveEndpoint(EndpointOption(osEndpoint), osConfigUrl))))
    /\ osPc' = "requesting"

\* the action up to its first await: the prompt, or with --yes the request
OsBegin ==
    /\ osPc = "start"
    /\ IF osYes
       THEN OsSend /\ UNCHANGED <<osAnswer, osOutput, osExitCode>>
       ELSE /\ osPc' = "asking"
            /\ UNCHANGED <<osAnswer, osRequests, osOutput, osExitCode>>
    /\ OsFrame

\* rl.question resolves with the line typed
OsAnswer ==
    /\ osPc = "asking"
    /\ \E answer \in Answers :
        /\ osAnswer' = answer
        /\ IF confirmAction(answer)
           THEN OsSend /\ UNCHANGED <<osOutput, osExitCode>>
           ELSE /\ osOutput' = Append(osOutput, "Aborted.")
                /\ osPc' = "done"
                /\ UNCHANGED <<osRequests, osExitCode>>
    /\ OsFrame

\* the request settles: a response, or an error caught by the action
OsResponse ==
    /\ osPc = "requesting"
    /\ \E ok \in BOOLEAN :
        IF ok
        THEN /\ osOutput' = Append(osOutput, "Deleted")
             /\ osPc' = "done"
             /\ UNCHANGED osExitCode
        ELSE /\ osOutput' = Append(osOutput, "Error while deleting")
             /\ osPc' = "failed"
             /\ osExitCode' = 1
    /\ UNCHANGED <<osAnswer, osRequests>>
    /\ OsFrame

NextOs == OsBegin \/ OsAnswer \/ OsResponse

SpecOs == InitOs /\ [][NextOs]_vars

\* the answers that read 'y' once trimmed and lower-cased
ConfirmingAnswers == {"y", "Y", " y ", "Y "}

\* C6: the DELETE / _delete_by_query request is sent only with --yes or after an
\* answer that is 'y' once trimmed and lower-cased; any other answer prints
\* 'Aborted.', sends nothing and leaves the exit code at 0.
C6_DeleteNeedsConfirmation ==
    osPc # "off" =>
        /\ Len(osRequests) > 0 => (osYes \/ osAnswer \in ConfirmingAnswers)
        /\ Len(osRequests) <= 1
        /\ \A i \in 1..Len(osRequests) :
              osRequests[i].method = (IF osCommand = "delete" THEN "DELETE" ELSE "POST")
        /\ (osAnswer \in ConfirmingAnswers \/ (osYes /\ osPc # "start")) => Len(osRequests) = 1
        /\ (osAnswer # Undef /\ osAnswer \notin ConfirmingAnswers) =>
              /\ osOutput = <<"Aborted.">>
              /\ osRequests = <<>>
              /\ osExitCode = 0
              /\ osPc = "done"

\* without --yes, the answer "Y " let delete-all send its request
C6_Witness ==
    /\ osCommand = "delete-all"
    /\ ~osYes
    /\ osAnswer = "Y "
    /\ Len(osRequests) = 1
    /\ osRequests[1].method = "POST"

----------------------------------------------------------------------------
(* Claims about the variables of a seed file *)

\* the value a scope gives a variable: the entry's own when it defines the name,
\* else the top-level one, else nothing (written as the empty string)
ScopeValue(globals, own, name) ==
    LET inOwn == { i \in 1..Len(own) : own[i].k = name }
        inGlobals == { i \in 1..Len(globals) : globals[i].k = name }
    IN IF inOwn # {} THEN own[CHOOSE i \in inOwn : TRUE].v
       ELSE IF inGlobals # {} THEN globals[CHOOSE i \in inGlobals : TRUE].v
       ELSE SText("")

\* a value with its placeholders written out for a scope
InScope(value, globals, own) ==
    CASE value.t = "vars" -> ScopeValue(globals, own, value.v)
      [] value.t = "ref" ->
            SRef(value.ref.table,
                 [i \in 1..Len(value.ref.where) |->
                    Entry(value.ref.where[i].k,
                          IF value.ref.where[i].v.t = "vars"
                          THEN ScopeValue(globals, own, value.ref.where[i].v.v)
                          ELSE value.ref.where[i].v)],
                 value.ref.column)
      [] OTHER -> value

RowInScope(row, globals, own) ==
    [i \in 1..Len(row) |-> Entry(row[i].k, InScope(row[i].v, globals, own))]

RowsInScope(rows, globals, own) ==
    [i \in 1..Len(rows) |-> RowInScope(rows[i], globals, own)]

TablesInScope(tables, globals, own) ==
    [i \in 1..Len(tables) |->
        Entry(tables[i].k, [tables[i].v EXCEPT !.rows = RowsInScope(@, globals, own)])]

OperationsInScope(operations, globals, own) ==
    [i \in 1..Len(operations) |->
        [operations[i] EXCEPT !.rows = RowsInScope(@, globals, own),
                              !.where = RowInScope(@, globals, own),
                              !.set = RowInScope(@, globals, own)]]

\* the seed file with no variables left: the top level written out with the
\* top-level variables, each databases entry with the top-level variables overlaid
\* by its own
SeedWrittenOut(seed) ==
    [seed EXCEPT
        !.variables = <<>>,
        !.tables = TablesInScope(@, seed.variables, <<>>),
        !.operations = OperationsInScope(@, seed.variables, <<>>),
        !.databases =
            [d \in 1..Len(seed.databases) |->
                Entry(seed.databases[d].k,
                      [seed.databases[d].v EXCEPT
                          !.variables = <<>>,
                          !.tables = TablesInScope(@, seed.variables,
                                                   seed.databases[d].v.variables),
                          !.operations = OperationsInScope(@, seed.variables,
                                                   seed.databases[d].v.variables)])]]

WrittenOutSteps ==
    applyYamlSeed(CommandOptions("seed-yaml", sdFlags, NoProcessEnv), sdDb,
                  SeedWrittenOut(sdSeed), sdConfigEnv, NoProcessEnv)

\* C11: seed variables are scoped per database: each databases entry is interpolated
\* with the top-level variables overlaid by its own (its own value wins), the
\* top-level payload with the top-level variables only, and no entry's variables
\* reach the statements of another entry.
C11_VariablesScopedPerDatabase ==
    sdPc # "off" =>
        /\ SeedSteps = WrittenOutSteps
        /\ sdPc = "waiting" =>
              sdLog[Len(sdLog)].sql = StepSql(WrittenOutSteps[sdCursor], sdBound).sql

\* two databases entries and the top level have each run the same row of the same
\* table, and the three statements differ because their variables differ
C11_Witness ==
    \E i, j, k \in 1..Len(sdLog) :
        /\ sdLog[i].at.label = "default"
        /\ sdLog[j].at.label = "api_wallet"
        /\ sdLog[k].at.label = "api_affiliations"
        /\ sdLog[i].kind = "insert" /\ sdLog[j].kind = "insert" /\ sdLog[k].kind = "insert"
        /\ sdLog[i].sql # sdLog[j].sql
        /\ sdLog[j].sql # sdLog[k].sql
        /\ sdLog[i].sql = "INSERT INTO \"Party\" (\"code\", \"region\") VALUES ('P3', '') ON CONFLICT (\"code\") DO UPDATE SET \"region\" = EXCLUDED.\"region\";"
        /\ sdLog[j].sql = "INSERT INTO \"Party\" (\"code\", \"region\") VALUES ('P3', 'eu');"
        /\ sdLog[k].sql = "INSERT INTO \"Party\" (\"code\", \"region\") VALUES ('P3', '');"


----------------------------------------------------------------------------
(* shell-virtual: the environment a command runs in (index.ts preAction    *)
(* hook, config.ts resolveEnvironmentName / resolveEnvironment)            *)

MaxResolveCalls == 3    \* resolveEnvironment() calls made by the command's action

\* a JS string in a condition: undefined and '' are falsy
Truthy(x) == x # Undef /\ x # ""

Config(default, environments) ==
    [isNull |-> FALSE, default |-> default, environments |-> environments]

EnvEntry(name) == [k |-> name, v |-> "environment"]

\* the config files of the runs: none or empty, `default` set, `default` naming no
\* listed environment, no `default`, an environment named by a number, no environments
ConfigFiles ==
    { NullConfig,
      Config("qa", <<EnvEntry("dev"), EnvEntry("qa")>>),
      Config("prod", <<EnvEntry("dev")>>),
      Config(Undef, <<EnvEntry("local"), EnvEntry("dev")>>),
      Config("", <<EnvEntry("stage"), EnvEntry("2024")>>),
      Config(Undef, <<>>) }

EnvArgvValues == { Undef, "", "  ", "dev", " dev " }
VirtEnvValues == { Undef, "  ", "qa", " qa" }

\* loadYamlConfig: the file is read on the first call only
loadYamlConfig(cached, file) == IF cached # Unread THEN cached ELSE file

Object_keys(entries) ==
    LET es == ObjectEntries(entries) IN [i \in 1..Len(es) |-> es[i].k]

resolveEnvironmentName(config, envName, virtEnv) ==
    IF Truthy(envName) /\ Truthy(trim(envName)) THEN trim(envName)
    ELSE IF Truthy(virtEnv) /\ Truthy(trim(virtEnv)) THEN trim(virtEnv)
    ELSE IF ~config.isNull /\ Truthy(config.default) THEN config.default
    ELSE LET envKeys == IF config.isNull THEN <<>> ELSE Object_keys(config.environments)
         IN  IF envKeys # <<>> THEN envKeys[1] ELSE "default"

EnvFrame == UNCHANGED <<evArgv, serverVars, loaderVars, routeVars, runtimeVars, seedVars,
                        dbVars, osVars, bulkVars, interpVars>>

InitEnv ==
    /\ ServerIdle
    /\ LoaderIdle
    /\ RouteIdle
    /\ RuntimeIdle
    /\ SeedIdle
    /\ DbIdle
    /\ OsIdle
    /\ BulkIdle
    /\ InterpIdle
    /\ evArgv \in EnvArgvValues
    /\ VIRT_ENV \in VirtEnvValues
    /\ evDisk \in ConfigFiles
    /\ cachedConfig = Unread
    /\ evOpts = Undef
    /\ evNames = <<>>
    /\ evPc = "argv"

\* program.option('-e, --env <name>', ..., process.env.VIRT_ENV) and the parse of argv
EnvParse ==
    /\ evPc = "argv"
    /\ evOpts' = Coalesce(evArgv, VIRT_ENV)
    /\ evPc' = "parsed"
    /\ UNCHANGED <<VIRT_ENV, evDisk, cachedConfig, evNames>>
    /\ EnvFrame

\* faulty variant: the hook resolves the environment without exporting --env
EnvPreActionNoExport ==
    /\ evPc = "parsed"
    /\ LET config == loadYamlConfig(cachedConfig, evDisk)
       IN  /\ cachedConfig' = config
           /\ evNames' = <<resolveEnvironmentName(config, evOpts, VIRT_ENV)>>
    /\ evPc' = "action"
    /\ UNCHANGED <<VIRT_ENV, evDisk, evOpts>>
    /\ EnvFrame

\* the preAction hook: export --env as VIRT_ENV, then resolveEnvironment(opts.env)
EnvPreAction ==
    /\ evPc = "parsed"
    /\ VIRT_ENV' = IF Truthy(evOpts) THEN evOpts ELSE VIRT_ENV
    /\ LET config == loadYamlConfig(cachedConfig, evDisk)
       IN  /\ cachedConfig' = config
           /\ evNames' = <<resolveEnvironmentName(config, evOpts, VIRT_ENV')>>
    /\ evPc' = "action"
    /\ UNCHANGED <<evDisk, evOpts>>
    /\ EnvFrame

\* resolveEnvironment() called by the action (resolvePostgresRuntime, resolveEndpoint,
\* buildAuthConfig)
EnvResolve ==
    /\ evPc = "action"
    /\ Len(evNames) < 1 + MaxResolveCalls
    /\ LET config == loadYamlConfig(cachedConfig, evDisk)
       IN  /\ cachedConfig' = config
           /\ evNames' = Append(evNames, resolveEnvironmentName(config, Undef, VIRT_ENV))
    /\ UNCHANGED <<VIRT_ENV, evDisk, evOpts, evPc>>
    /\ EnvFrame

\* the action returns
EnvExit ==
    /\ evPc = "action"
    /\ evPc' = "done"
    /\ UNCHANGED <<VIRT_ENV, evDisk, cachedConfig, evOpts, evNames>>
    /\ EnvFrame

\* the config file is rewritten by an editor while the command runs
EnvConfigRewritten ==
    /\ evPc \in {"argv", "parsed", "action"}
    /\ evDisk' \in ConfigFiles \ {evDisk}
    /\ UNCHANGED <<VIRT_ENV, cachedConfig, evOpts, evNames, evPc>>
    /\ EnvFrame

NextEnv == EnvParse \/ EnvPreAction \/ EnvResolve \/ EnvExit \/ EnvConfigRewritten

SpecEnv == InitEnv /\ [][NextEnv]_vars

\* a name was given: the value is not blank
Named(x) == Truthy(x) /\ Truthy(trim(x))

----------------------------------------------------------------------------
(* Claims about the OpenSearch base URL *)

\* the base URL by the documented precedence: --endpoint, else the environment's
\* opensearch.url, else OPENSEARCH_URL or http://localhost:9200
DocumentedBase ==
    StripSlash(IF osEndpoint # Undef THEN osEndpoint
               ELSE IF osConfigUrl # Undef THEN osConfigUrl
               ELSE DEFAULT_OPENSEARCH_URL)

\* C13: every request of an opensearch subcommand goes to the base URL given by
\* --endpoint, else by the selected environment's opensearch.url, else by
\* OPENSEARCH_URL, else http://localhost:9200.
C13_EndpointPrecedence ==
    \A i \in 1..Len(osRequests) :
        osRequests[i] = DeleteRequest(osCommand, DocumentedBase)

----------------------------------------------------------------------------
(* shell-virtual opensearch load *)

\* a file: its extension, whether it can be read and parsed, and its content.  A text
\* file is held as raw.split('\n'); a .json/.yaml document as the list buildBulkPayload
\* walks, each item with its JSON.stringify text.
BulkFile(ext, kind, lines, isArray, docs) ==
    [ext |-> ext, kind |-> kind, lines |-> lines, isArray |-> isArray, docs |-> docs]

BulkDoc(isObject, json) == [isObject |-> isObject, json |-> json]

MetaLine == "{\"index\":{\"_index\":\"ops\"}}"
DocLineA == "{\"id\":1}"
DocLineB == "{\"id\":2}"

LoadFiles ==
    { BulkFile(".ndjson", "text", <<MetaLine, DocLineA, MetaLine, DocLineB>>, FALSE, <<>>),
      BulkFile(".NDJSON", "text", <<MetaLine, DocLineA, "">>, FALSE, <<>>),
      BulkFile(".jsonl", "text", <<MetaLine, DocLineA, " ", "">>, FALSE, <<>>),
      BulkFile(".jsonl", "text", <<"">>, FALSE, <<>>),
      BulkFile(".ndjson", "absent", <<>>, FALSE, <<>>),
      BulkFile(".json", "text", <<>>, TRUE, <<BulkDoc(TRUE, DocLineA), BulkDoc(TRUE, DocLineB)>>),
      BulkFile(".JSON", "text", <<>>, FALSE, <<BulkDoc(TRUE, DocLineA)>>),
      BulkFile(".json", "text", <<>>, TRUE, <<BulkDoc(TRUE, DocLineA), BulkDoc(FALSE, "7")>>),
      BulkFile(".json", "invalid", <<>>, FALSE, <<>>),
      BulkFile(".yaml", "text", <<>>, TRUE, <<BulkDoc(TRUE, DocLineB)>>),
      BulkFile(".yml", "text", <<>>, FALSE, <<BulkDoc(FALSE, "null")>>),
      BulkFile(".yml", "absent", <<>>, FALSE, <<>>),
      BulkFile(".txt", "text", <<DocLineA>>, FALSE, <<>>) }

NDJSON_EXTENSIONS == {".ndjson", ".jsonl"}
YAML_EXTENSIONS == {".yaml", ".yml"}

\* what loadFileContent gives: payload and count, or the message of the error thrown.
\* count is held in halves (the NDJSON count is lines / 2).
Payload(text, halves) == [ok |-> TRUE, payload |-> text, halves |-> halves, message |-> Undef]
LoadThrown(message) == [ok |-> FALSE, payload |-> "", halves |-> 0, message |-> message]

buildBulkPayload(file, index) ==
    IF ~Truthy(index)
    THEN LoadThrown("Missing required --index for JSON/YAML inputs.")
    ELSE IF \E i \in 1..Len(file.docs) : ~file.docs[i].isObject
    THEN LoadThrown("Each document must be an object.")
    ELSE Payload(Join(Flatten([i \in 1..Len(file.docs) |->
                         <<"{\"index\":{\"_index\":\"" \o index \o "\"}}", file.docs[i].json>>]),
                      "\n") \o "\n",
                 2 * Len(file.docs))

\* raw.endsWith('\n') on raw.split('\n')
EndsWithNewline(lines) == Len(lines) >= 2 /\ lines[Len(lines)] = ""

\* faulty variant: the newline is appended to every NDJSON file
loadFileContentAlwaysAppends(file, options) ==
    LET ext == toLowerCase(file.ext) IN
    IF file.kind = "absent" THEN LoadThrown("ENOENT: no such file or directory")
    ELSE IF ext \in NDJSON_EXTENSIONS
    THEN Payload(Join(file.lines, "\n") \o "\n",
                 Len(SelectSeq(file.lines, LAMBDA l : trim(l) # "")))
    ELSE IF ext = ".json" \/ ext \in YAML_EXTENSIONS
    THEN IF file.kind = "invalid" THEN LoadThrown("parse error")
         ELSE buildBulkPayload(file, options.index)
    ELSE LoadThrown("Unsupported file type. Use .ndjson, .jsonl, .json, .yaml, or .yml.")

loadFileContent(file, options) ==
    LET ext == toLowerCase(file.ext) IN
    IF file.kind = "absent" THEN LoadThrown("ENOENT: no such file or directory")
    ELSE IF ext \in NDJSON_EXTENSIONS
    THEN LET raw == Join(file.lines, "\n")
             payload == IF EndsWithNewline(file.lines) THEN raw ELSE raw \o "\n"
             lines == IF EndsWithNewline(file.lines) THEN file.lines
                      ELSE Append(file.lines, "")
         IN  Payload(payload, Len(SelectSeq(lines, LAMBDA l : trim(l) # "")))
    ELSE IF ext = ".json" \/ ext \in YAML_EXTENSIONS
    THEN IF file.kind = "invalid" THEN LoadThrown("parse error")
         ELSE buildBulkPayload(file, options.index)
    ELSE LoadThrown("Unsupported file type. Use .ndjson, .jsonl, .json, .yaml, or .yml.")

\* normalizeBulkEndpoint on the URLs the model uses
normalizeBulkEndpoint(endpoint) ==
    LET trimmed == StripSlash(endpoint)
    IN  IF trimmed = "http://os.dev:9200/_bulk" THEN trimmed ELSE trimmed \o "/_bulk"

BulkPost(url, body) ==
    [method |-> "POST", url |-> url, body |-> body, contentType |-> "application/x-ndjson"]

Printed(line, halves, text) == [line |-> line, halves |-> halves, text |-> text]

LoadOptions ==
    { [endpoint |-> e, configUrl |-> c, index |-> i, dryRun |-> d, reset |-> FALSE,
       waitSeconds |-> NoNum] :
        e \in {Undef, "http://os.dev:9200/", "http://os.dev:9200/_bulk"},
        c \in {Undef, "http://os.cfg:9200"},
        i \in {Undef, "", "ops"},
        d \in BOOLEAN }

BulkFrame == UNCHANGED <<blCommand, blFile, blOptions, serverVars, loaderVars, routeVars,
                         runtimeVars, seedVars, dbVars, osVars, envVars, interpVars>>

InitLoad ==
    /\ ServerIdle
    /\ LoaderIdle
    /\ RouteIdle
    /\ RuntimeIdle
    /\ SeedIdle
    /\ DbIdle
    /\ OsIdle
    /\ EnvIdle
    /\ InterpIdle
    /\ blCommand = "load"
    /\ blFile \in LoadFiles
    /\ blOptions \in LoadOptions
    /\ blServer \in { [up |-> u, index |-> FALSE] : u \in BOOLEAN }
    /\ blClock = 0
    /\ blRequests = <<>>
    /\ blOutput = <<>>
    /\ blError = Undef
    /\ blExitCode = 0
    /\ blPc = "start"

\* the action up to its first HTTP request: loadFileContent, then the dry-run print or
\* the call of axios.post
LoadBegin ==
    /\ blPc = "start"
    /\ LET content == loadFileContent(blFile, blOptions) IN
       IF ~content.ok
       THEN /\ blError' = content.message
            /\ blExitCode' = 1
            /\ blPc' = "failed"
            /\ UNCHANGED <<blRequests, blOutput>>
       ELSE IF blOptions.dryRun
       THEN /\ blOutput' = <<Printed("Bulk payload ready", content.halves, ""),
                             Printed("payload", 0, content.payload)>>
            /\ blPc' = "done"
            /\ UNCHANGED <<blRequests, blError, blExitCode>>
       ELSE /\ blRequests' =
                  <<BulkPost(normalizeBulkEndpoint(
                                 resolveEndpoint(EndpointOption(blOptions.endpoint),
                                                 blOptions.configUrl)),
                             content.payload)>>
            /\ blPc' = "requesting"
            /\ UNCHANGED <<blOutput, blError, blExitCode>>
    /\ UNCHANGED <<blServer, blClock>>
    /\ BulkFrame

\* axios.post settles
LoadResponse ==
    /\ blPc = "requesting"
    /\ IF blServer.up
       THEN /\ blOutput' = <<Printed("Loaded", loadFileContent(blFile, blOptions).halves, "")>>
            /\ blPc' = "done"
            /\ UNCHANGED <<blError, blExitCode>>
       ELSE /\ blError' = "connect ECONNREFUSED"
            /\ UNCHANGED blOutput
            /\ blExitCode' = 1
            /\ blPc' = "failed"
    /\ UNCHANGED <<blServer, blClock, blRequests>>
    /\ BulkFrame

NextLoad == LoadBegin \/ LoadResponse

SpecLoad == InitLoad /\ [][NextLoad]_vars

\* the text of the file named on the command line, and whether it ends with a newline
FileText == Join(blFile.lines, "\n")
FileEndsWithNewline == blFile.lines # <<"">> /\ blFile.lines[Len(blFile.lines)] = ""

StructuredInput == toLowerCase(blFile.ext) \in {".json", ".yaml", ".yml"}
NdjsonInput == toLowerCase(blFile.ext) \in {".ndjson", ".jsonl"}

\* C14: opensearch load issues no HTTP request with --dry-run, and prints the payload
\* it built; for a .json/.yaml/.yml input without --index it issues no HTTP request and
\* fails with exit code 1, with the message 'Missing required --index for JSON/YAML
\* inputs.' when the file was read and parsed; a readable .ndjson/.jsonl file is sent
\* to /_bulk as it is, with a newline appended when the file does not end with one.
C14_LoadSendsOrNot ==
    blPc \in {"requesting", "done", "failed"} =>
        /\ blOptions.dryRun =>
              /\ blRequests = <<>>
              /\ blPc = "done" =>
                    /\ Len(blOutput) = 2
                    /\ blOutput[2].text = loadFileContent(blFile, blOptions).payload
        /\ StructuredInput /\ blOptions.index = Undef =>
              /\ blRequests = <<>>
              /\ blPc = "failed"
              /\ blExitCode = 1
              /\ blFile.kind = "text" =>
                    blError = "Missing required --index for JSON/YAML inputs."
        /\ NdjsonInput /\ ~blOptions.dryRun /\ blFile.kind = "text" =>
              /\ Len(blRequests) = 1
              /\ blRequests[1].method = "POST"
              /\ blRequests[1].url \in {"http://localhost:9200/_bulk", "http://os.dev:9200/_bulk"}
              /\ blRequests[1].body =
                    IF FileEndsWithNewline THEN FileText ELSE FileText \o "\n"

\* a .jsonl file that does not end with a newline was sent with one appended
C14_Witness ==
    /\ blPc = "done"
    /\ blFile.ext = ".ndjson"
    /\ Len(blRequests) = 1
    /\ blRequests[1].body = MetaLine \o "\n" \o DocLineA \o "\n" \o MetaLine \o "\n" \o DocLineB \o "\n"

\* a .yaml file was given without --index and nothing was sent
C14_WitnessMissingIndex ==
    /\ blPc = "failed"
    /\ blFile.ext = ".yaml"
    /\ blOptions.index = Undef
    /\ ~blOptions.dryRun
    /\ blError = "Missing required --index for JSON/YAML inputs."
    /\ blRequests = <<>>

----------------------------------------------------------------------------
(* Claims about the statements of a `tables` entry *)

\* the `tables` mapping of the scope a step belongs to, and its entry for a table
ScopeTables(label) ==
    IF label = "default" THEN sdSeed.tables
    ELSE (CHOOSE d \in SeqToSet(sdSeed.databases) : d.k = label).v.tables

TableEntry(label, table) ==
    (CHOOSE t \in SeqToSet(ScopeTables(label)) : t.k = table).v

\* every `tables` entry of the seed file
AllTableEntries ==
    SeqToSet(sdSeed.tables)
    \cup UNION { SeqToSet(sdSeed.databases[d].v.tables) : d \in 1..Len(sdSeed.databases) }

\* INSERT INTO "t" (columns) VALUES (values) for a row whose refs are resolved
InsertHead(table, row) ==
    "INSERT INTO " \o quoteIdentifier(table)
    \o " (" \o Join([i \in 1..Len(row) |-> quoteIdentifier(row[i].k)], ", ")
    \o ") VALUES (" \o Join([i \in 1..Len(row) |-> toSqlValue(row[i].v)], ", ") \o ")"

\* ON CONFLICT (keys) DO UPDATE SET of the row's columns outside keys, or DO NOTHING
ConflictTail(row, keys) ==
    LET rest == SelectSeq(row, LAMBDA e : \A i \in 1..Len(keys) : keys[i] # e.k)
    IN  " ON CONFLICT (" \o Join([i \in 1..Len(keys) |-> quoteIdentifier(keys[i])], ", ")
        \o ")"
        \o (IF rest = <<>> THEN " DO NOTHING;"
            ELSE " DO UPDATE SET "
                 \o Join([i \in 1..Len(rest) |->
                            quoteIdentifier(rest[i].k) \o " = EXCLUDED."
                            \o quoteIdentifier(rest[i].k)], ", ") \o ";")

\* the command is waiting for the INSERT of a row of a `tables` entry
TableRowIssued ==
    /\ sdPc = "waiting"
    /\ SeedStep.k = "insert"
    /\ SeedStep.at.section = "tables"

IssuedSql == sdLog[Len(sdLog)].sql
IssuedRow == resolveSeedRow(SeedStep.row, sdBound)
IssuedEntry == TableEntry(SeedStep.at.label, SeedStep.at.table)

\* no subprocess was spawned for a `tables` entry without rows
NoStatementWithoutRows ==
    \A i \in 1..Len(sdLog) :
        sdLog[i].at.section = "tables" =>
            TableEntry(sdLog[i].at.label, sdLog[i].at.table).rows # <<>>

\* C15: a `tables` entry with a non-empty upsertBy turns each row into INSERT ... ON
\* CONFLICT (upsertBy) DO UPDATE SET of the row's columns not in upsertBy (DO NOTHING
\* when there is none), an entry without upsertBy into a plain INSERT; an entry with
\* no rows issues no statement; an entry whose action is neither insert nor upsert
\* aborts the seed.
C15_TablesInsertOrUpsert ==
    sdPc # "off" =>
        /\ TableRowIssued =>
              IssuedSql = InsertHead(SeedStep.at.table, IssuedRow)
                          \o (IF IssuedEntry.upsertBy # <<>>
                              THEN ConflictTail(IssuedRow, IssuedEntry.upsertBy)
                              ELSE ";")
        /\ NoStatementWithoutRows
        /\ sdPc = "done" =>
              \A t \in AllTableEntries : t.v.action \in {Undef, "insert", "upsert"}

\* C15 as amended: the upsert form is used when upsertBy is non-empty and action is
\* absent or upsert, the plain INSERT otherwise (action insert, or no upsertBy); an
\* entry with no rows issues no statement and its action is not looked at; an entry
\* with rows whose action is neither insert nor upsert aborts the seed before any of
\* its rows is inserted.
C15_TablesActionDecides ==
    sdPc # "off" =>
        /\ TableRowIssued =>
              /\ IssuedEntry.action \in {Undef, "insert", "upsert"}
              /\ IssuedSql = InsertHead(SeedStep.at.table, IssuedRow)
                             \o (IF IssuedEntry.upsertBy # <<>>
                                    /\ IssuedEntry.action \in {Undef, "upsert"}
                                 THEN ConflictTail(IssuedRow, IssuedEntry.upsertBy)
                                 ELSE ";")
        /\ NoStatementWithoutRows
        /\ sdPc = "done" =>
              \A t \in AllTableEntries :
                  t.v.rows # <<>> => t.v.action \in {Undef, "insert", "upsert"}

\* an entry with action insert and upsertBy [code] issued a plain INSERT, after an
\* entry with upsertBy [code] and no action issued an upsert
C15_Witness ==
    /\ TableRowIssued
    /\ IssuedEntry.action = "insert"
    /\ IssuedEntry.upsertBy = <<"code">>
    /\ IssuedSql = "INSERT INTO \"Ledger\" (\"code\", \"name\") VALUES ('P1', 'acme');"
    /\ \E i \in 1..Len(sdLog) :
          sdLog[i].sql = "INSERT INTO \"Party\" (\"code\", \"name\") VALUES ('P1', 'acme') ON CONFLICT (\"code\") DO UPDATE SET \"name\" = EXCLUDED.\"name\";"

----------------------------------------------------------------------------
(* Claims about the items of `operations` *)

\* the `operations` list of a scope
ScopeOperations(label) ==
    IF label = "default" THEN sdSeed.operations
    ELSE (CHOOSE d \in SeqToSet(sdSeed.databases) : d.k = label).v.operations

ScopeLabels == {"default"} \cup { sdSeed.databases[d].k : d \in 1..Len(sdSeed.databases) }

\* the item lacks what its type requires, or its type is none of the four
RejectedOperation(op) ==
    \/ op.type \notin {"insert", "upsert", "update", "delete"}
    \/ op.table = Undef
    \/ op.type \in {"insert", "upsert"} /\ op.rows = <<>>
    \/ op.type = "update" /\ (~op.hasWhere \/ ~op.hasSet)
    \/ op.type = "delete" /\ ~op.hasWhere

OperationErrors ==
    { "Seed operation requires \"table\".", "Operation requires \"rows\".",
      "Operation \"update\" requires \"where\" and \"set\".",
      "Operation \"delete\" requires \"where\".", "Unsupported seed operation type" }

\* C16: an `operations` item whose type is not insert, upsert, update or delete, or
\* that has no table, or an insert/upsert without rows, an update without where or
\* set, a delete without where, raises an error that stops the seed at that item:
\* no subprocess is spawned for the item, none for a later item of its list nor,
\* when the list is the top-level one, for any databases entry, and the command
\* cannot complete; and only such an item raises one of these errors.
C16_OperationsValidated ==
    sdPc # "off" =>
        /\ \A label \in ScopeLabels : \A i \in 1..Len(ScopeOperations(label)) :
              RejectedOperation(ScopeOperations(label)[i]) =>
                  /\ sdPc # "done"
                  /\ \A n \in 1..Len(sdLog) :
                        /\ sdLog[n].at.label = label /\ sdLog[n].at.section = "operations"
                              => sdLog[n].at.index < i
                        /\ label = "default" => sdLog[n].at.label = "default"
        /\ sdPc = "failed" /\ sdError \in OperationErrors =>
              /\ sdExitCode = 1
              /\ SeedStep.at.section = "operations"
              /\ RejectedOperation(ScopeOperations(SeedStep.at.label)[SeedStep.at.index])
              /\ \A n \in 1..Len(sdLog) : sdLog[n].at # SeedStep.at

\* the seed stopped at an update without `set`, after the UPDATE of the item before
\* it had run
C16_Witness ==
    /\ sdPc = "failed"
    /\ sdError = "Operation \"update\" requires \"where\" and \"set\"."
    /\ sdSeed.operations = <<OpUpdate, OpUpdateNoSet, OpInsert>>
    /\ Len(sdLog) = 1
    /\ sdLog[1].kind = "update"
    /\ sdLog[1].exit = 0

----------------------------------------------------------------------------
(* shell-virtual opensearch seed-operations *)

MaxLatency == 1             \* seconds a readiness probe can take to settle
DEFAULT_WAIT_SECONDS == 120 \* --wait-seconds when the flag is not written
RetrySleepSeconds == 2      \* setTimeout(resolve, 2000) between two probes

\* the bulk file: resources/napa/seeds/opensearch/operations.ndjson or --bulk-file
BulkFiles ==
    { BulkFile(".ndjson", "text", <<MetaLine, DocLineA, "", MetaLine, DocLineB, "">>, FALSE, <<>>),
      BulkFile(".ndjson", "absent", <<>>, FALSE, <<>>) }

\* normalizeBulkPayload without --dynamic-ids and --dynamic-timestamps, on the lines
\* the model uses: blank lines dropped, _index of a meta line overridden
normalizeBulkPayload(lines, indexOverride) ==
    LET kept == SelectSeq(lines, LAMBDA l : trim(l) # "")
    IN  Join([i \in 1..Len(kept) |->
                IF kept[i] = MetaLine
                THEN "{\"index\":{\"_index\":\"" \o indexOverride \o "\"}}"
                ELSE kept[i]], "\n") \o "\n"

SeedOperationsOptions ==
    { [endpoint |-> e, configUrl |-> Undef, index |-> i, dryRun |-> FALSE, reset |-> r,
       waitSeconds |-> w] :
        e \in {Undef, "http://os.dev:9200/"},
        i \in {Undef, "ops"},
        r \in BOOLEAN,
        w \in {NoNum, 0, 3} }

\* the values the action takes from its options
OpsEndpoint == resolveEndpoint(EndpointOption(blOptions.endpoint), blOptions.configUrl)
OpsIndex == Coalesce(blOptions.index, "operations")
OpsWaitSeconds == CoalesceNum(blOptions.waitSeconds, DEFAULT_WAIT_SECONDS)
OpsIndexUrl == StripSlash(OpsEndpoint) \o "/" \o OpsIndex

Request(method, url, body) == [method |-> method, url |-> url, body |-> body, status |-> 0]

\* the last request is answered
Answered(requests, status) == [requests EXCEPT ![Len(requests)].status = status]

InitSeedOperations ==
    /\ ServerIdle
    /\ LoaderIdle
    /\ RouteIdle
    /\ RuntimeIdle
    /\ SeedIdle
    /\ DbIdle
    /\ OsIdle
    /\ EnvIdle
    /\ InterpIdle
    /\ blCommand = "seed-operations"
    /\ blFile \in BulkFiles
    /\ blOptions \in SeedOperationsOptions
    /\ blServer \in { [up |-> u, index |-> i] : u, i \in BOOLEAN }
    /\ blClock = 0
    /\ blRequests = <<>>
    /\ blOutput = <<>>
    /\ blError = Undef
    /\ blExitCode = 0
    /\ blPc = "start"

\* the catch of the action
OpsFail(requests, message) ==
    /\ blRequests' = requests
    /\ blError' = message
    /\ blExitCode' = 1
    /\ blPc' = "failed"
    /\ UNCHANGED <<blServer, blOutput>>

\* the head of the while loop of waitForOpenSearch, entered with `requests` sent so
\* far at time `now`
OpsWaitLoop(requests, now) ==
    /\ blClock' = now
    /\ IF now < OpsWaitSeconds
       THEN /\ blRequests' = Append(requests, Request("GET", OpsEndpoint, ""))
            /\ blPc' = "probing"
            /\ UNCHANGED <<blServer, blOutput, blError, blExitCode>>
       ELSE OpsFail(requests, "OpenSearch did not respond")

\* the action up to its first await
OpsBegin ==
    /\ blPc = "start"
    /\ OpsWaitLoop(blRequests, 0)
    /\ BulkFrame

\* the readiness probe is rejected: the loop sleeps
OpsProbeRejected ==
    /\ blPc = "probing"
    /\ ~blServer.up
    /\ \E latency \in 0..MaxLatency : blClock' = blClock + latency
    /\ blRequests' = Answered(blRequests, NoNum)
    /\ blPc' = "sleeping"
    /\ UNCHANGED <<blServer, blOutput, blError, blExitCode>>
    /\ BulkFrame

\* the timer of the loop fires
OpsWake ==
    /\ blPc = "sleeping"
    /\ OpsWaitLoop(blRequests, blClock + RetrySleepSeconds)
    /\ BulkFrame

\* the readiness probe is answered: waitForOpenSearch returns and
\* ensureOperationsIndex sends its HEAD
OpsProbeAnswered ==
    /\ blPc = "probing"
    /\ blServer.up
    /\ \E latency \in 0..MaxLatency : blClock' = blClock + latency
    /\ blRequests' = Append(Answered(blRequests, 200), Request("HEAD", OpsIndexUrl, ""))
    /\ blPc' = "head"
    /\ UNCHANGED <<blServer, blOutput, blError, blExitCode>>
    /\ BulkFrame

\* what follows ensureOperationsIndex: the bulk file is read, normalized and posted
OpsBulk(requests) ==
    IF blFile.kind = "absent"
    THEN OpsFail(requests, "ENOENT: no such file or directory")
    ELSE /\ blRequests' = Append(requests,
                Request("POST", normalizeBulkEndpoint(OpsEndpoint),
                        normalizeBulkPayload(blFile.lines, OpsIndex)))
         /\ blPc' = "posting"
         /\ UNCHANGED <<blServer, blOutput, blError, blExitCode>>

\* faulty variant: the index is created again although it exists
OpsHeadSettledAlwaysCreates ==
    /\ blPc = "head"
    /\ IF ~blServer.up
       THEN OpsFail(Answered(blRequests, NoNum), "connect ECONNREFUSED")
       ELSE LET exists == blServer.index
                requests == Answered(blRequests, IF exists THEN 200 ELSE 404)
            IN  IF blOptions.reset /\ exists
                THEN /\ blRequests' = Append(requests, Request("DELETE", OpsIndexUrl, ""))
                     /\ blPc' = "deleting"
                     /\ UNCHANGED <<blServer, blOutput, blError, blExitCode>>
                ELSE /\ blRequests' = Append(requests, Request("PUT", OpsIndexUrl, "mappings"))
                     /\ blPc' = "creating"
                     /\ UNCHANGED <<blServer, blOutput, blError, blExitCode>>
    /\ UNCHANGED blClock
    /\ BulkFrame

\* the HEAD settles: 200, 404, or an error that is thrown on
OpsHeadSettled ==
    /\ blPc = "head"
    /\ IF ~blServer.up
       THEN OpsFail(Answered(blRequests, NoNum), "connect ECONNREFUSED")
       ELSE LET exists == blServer.index
                requests == Answered(blRequests, IF exists THEN 200 ELSE 404)
            IN  IF blOptions.reset /\ exists
                THEN /\ blRequests' = Append(requests, Request("DELETE", OpsIndexUrl, ""))
                     /\ blPc' = "deleting"
                     /\ UNCHANGED <<blServer, blOutput, blError, blExitCode>>
                ELSE IF exists
                THEN OpsBulk(requests)
                ELSE /\ blRequests' = Append(requests, Request("PUT", OpsIndexUrl, "mappings"))
                     /\ blPc' = "creating"
                     /\ UNCHANGED <<blServer, blOutput, blError, blExitCode>>
    /\ UNCHANGED blClock
    /\ BulkFrame

\* the DELETE settles
OpsDeleteSettled ==
    /\ blPc = "deleting"
    /\ IF ~blServer.up
       THEN OpsFail(Answered(blRequests, NoNum), "connect ECONNREFUSED")
       ELSE /\ blServer' = [blServer EXCEPT !.index = FALSE]
            /\ blRequests' = Append(Answered(blRequests, 200),
                                    Request("PUT", OpsIndexUrl, "mappings"))
            /\ blPc' = "creating"
            /\ UNCHANGED <<blOutput, blError, blExitCode>>
    /\ UNCHANGED blClock
    /\ BulkFrame

\* the PUT settles
OpsPutSettled ==
    /\ blPc = "creating"
    /\ IF ~blServer.up
       THEN OpsFail(Answered(blRequests, NoNum), "connect ECONNREFUSED")
       ELSE IF blFile.kind = "absent"
       THEN /\ blServer' = [blServer EXCEPT !.index = TRUE]
            /\ blRequests' = Answered(blRequests, 200)
            /\ blError' = "ENOENT: no such file or directory"
            /\ blExitCode' = 1
            /\ blPc' = "failed"
            /\ UNCHANGED blOutput
       ELSE /\ blServer' = [blServer EXCEPT !.index = TRUE]
            /\ blRequests' = Append(Answered(blRequests, 200),
                   Request("POST", normalizeBulkEndpoint(OpsEndpoint),
                           normalizeBulkPayload(blFile.lines, OpsIndex)))
            /\ blPc' = "posting"
            /\ UNCHANGED <<blOutput, blError, blExitCode>>
    /\ UNCHANGED blClock
    /\ BulkFrame

\* the bulk POST settles
OpsPostSettled ==
    /\ blPc = "posting"
    /\ IF ~blServer.up
       THEN OpsFail(Answered(blRequests, NoNum), "connect ECONNREFUSED")
       ELSE /\ blRequests' = Answered(blRequests, 200)
            /\ blOutput' = <<Printed("Seeded OpenSearch index", 0, OpsIndex)>>
            /\ blPc' = "done"
            /\ UNCHANGED <<blServer, blError, blExitCode>>
    /\ UNCHANGED blClock
    /\ BulkFrame

\* the OpenSearch container starts or stops answering
OpsServerFlips ==
    /\ blPc \in {"probing", "sleeping", "head", "deleting", "creating", "posting"}
    /\ blServer' = [blServer EXCEPT !.up = ~blServer.up]
    /\ UNCHANGED <<blClock, blRequests, blOutput, blError, blExitCode, blPc>>
    /\ BulkFrame

NextSeedOperations ==
    \/ OpsBegin \/ OpsProbeRejected \/ OpsWake \/ OpsProbeAnswered \/ OpsHeadSettled
    \/ OpsDeleteSettled \/ OpsPutSettled \/ OpsPostSettled \/ OpsServerFlips

SpecSeedOperations == InitSeedOperations /\ [][NextSeedOperations]_vars

\* the positions of the requests of one method
Sent(method) == { i \in 1..Len(blRequests) : blRequests[i].method = method }

\* every request of method a was sent before every request of method b
Before(a, b) == \A i \in Sent(a), j \in Sent(b) : i < j

----------------------------------------------------------------------------
(* Claims about the API list and the router *)

\* the ids GET /virtual/apis lists, and the ids of the APIs the router dispatches to
ListedApis == [i \in 1..Len(currentState.apis) |-> currentState.apis[i].id]
DispatchedApis == [i \in 1..Len(currentRouter) |-> currentRouter[i].apiId]

\* C18: at start-up and after any sequence of successful and failed reloads,
\* currentRouter is the router built from currentState.apis with
\* currentState.sharedResources, so GET /virtual/apis lists exactly the APIs whose
\* routes are dispatched, each under its basePath.
C18_ListMatchesRouter ==
    srvPc # "off" =>
        /\ currentRouter = buildApisRouter(currentState.apis, currentState.sharedResources)
        /\ currentRouter = currentState.router
        /\ ListedApis = DispatchedApis
        /\ \A i \in 1..Len(currentRouter) :
              /\ currentRouter[i].basePath = currentState.apis[i].basePath
              /\ currentRouter[i].handlers = currentState.apis[i].handlers

\* after the files changed twice a manual reload failed, and the server still lists
\* and dispatches the routes of the APIs loaded before
C18_Witness ==
    /\ srvPc = "idle"
    /\ reloadAudit # NoAudit
    /\ reloadResponse = ReloadAnswer(FALSE, currentState)
    /\ currentState.apis # <<>>
    /\ \E i \in 1..Len(currentRouter) : currentRouter[i].handlers # <<>>
    /\ clock = MaxWrites

----------------------------------------------------------------------------
(* Claims about bodyTemplate *)

RECURSIVE PlaceholdersReplaced(_, _)
\* a string with every placeholder replaced by String(value) of its dotted path in
\* the context, or by '' when the path does not resolve
PlaceholdersReplaced(parts, context) ==
    IF parts = <<>> THEN ""
    ELSE LET p == Head(parts)
             value == GetPath(context, p.path)
         IN (IF p.lit THEN p.text
             ELSE IF value.t # "undef" THEN StringOf(value) ELSE "")
            \o PlaceholdersReplaced(Tail(parts), context)

RECURSIVE TemplateFilled(_, _)
\* the template with its strings replaced, arrays and objects walked in order
TemplateFilled(template, context) ==
    CASE template.t = "str" -> JText(PlaceholdersReplaced(template.parts, context))
      [] template.t = "arr" ->
            JArr([i \in 1..Len(template.items) |-> TemplateFilled(template.items[i], context)])
      [] template.t = "obj" ->
            JObj([i \in 1..Len(template.entries) |->
                    [k |-> template.entries[i].k,
                     v |-> TemplateFilled(template.entries[i].v, context)]])
      [] OTHER -> template

\* C19: a route without handler answers its bodyTemplate with every {{token}} of every
\* string replaced by String(value) of the dotted path token in the request context,
\* or by '' when the path does not resolve, through arrays and objects, keys, order
\* and non-string leaves unchanged; without bodyTemplate it answers its literal body,
\* or {ok: true} when it has none.
C19_BodyTemplateInterpolated ==
    rtPc = "replied" /\ rtRoute.handler = Undef =>
        rtReply.body =
            IF rtRoute.response.bodyTemplate.t # "undef"
            THEN TemplateFilled(rtRoute.response.bodyTemplate, rtContext)
            ELSE IF rtRoute.response.body.t = "undef"
                 THEN JObj(<<[k |-> "ok", v |-> [t |-> "bool", b |-> TRUE]]>>)
                 ELSE rtRoute.response.body

----------------------------------------------------------------------------
(* applySeedVariables on one row whose columns name the same variable in    *)
(* the two syntaxes: column "handlebars" writes {{vars.X}}, column "legacy" *)
(* writes ${X}, each between the same leading and trailing text.           *)

VarNames == {"tenant", "limit", "active", "org", "org.id", "none", "region", "missing"}

\* the text written before and after the placeholder; both empty: the string consists
\* of the placeholder alone
Surroundings == {<<"", "">>, <<"acct-", "">>, <<"", "-USD">>, <<"acct-", "-USD">>}

VariableSets ==
    { <<>>,
      <<Entry("tenant", SText("acme")), Entry("limit", SNum("25")),
        Entry("active", SBool("true")), Entry("org", SObject(<<Entry("id", SNum("7"))>>)),
        Entry("none", SNull)>>,
      <<Entry("region", SText("eu")),
        Entry("tenant", STemplate(<<Legacy("region"), Plain("-wallet")>>))>>,
      <<Entry("region", SText("eu")),
        Entry("tenant", STemplate(<<Handlebars("region"), Plain("-wallet")>>)),
        Entry("org", SLegacy("region")), Entry("limit", SNum("0")),
        Entry("active", SBool("false"))>> }

\* the string a column holds
Written(syntax, input) ==
    LET placeholder == IF syntax = "handlebars" THEN Handlebars(input.name)
                       ELSE Legacy(input.name)
    IN IF input.pre = "" /\ input.post = ""
       THEN (IF syntax = "handlebars" THEN SVar(input.name) ELSE SLegacy(input.name))
       ELSE STemplate((IF input.pre = "" THEN <<>> ELSE <<Plain(input.pre)>>)
                      \o <<placeholder>>
                      \o (IF input.post = "" THEN <<>> ELSE <<Plain(input.post)>>))

InterpRow(input) ==
    <<Entry("handlebars", Written("handlebars", input)),
      Entry("legacy", Written("legacy", input))>>

InitInterp ==
    /\ svInput \in [name : VarNames, pre : {s[1] : s \in Surroundings},
                    post : {s[2] : s \in Surroundings}]
    /\ svVariables \in VariableSets
    /\ svApplied = <<>>
    /\ svPc = "read"
    /\ ServerIdle
    /\ LoaderIdle
    /\ RouteIdle
    /\ RuntimeIdle
    /\ SeedIdle
    /\ DbIdle
    /\ OsIdle
    /\ EnvIdle
    /\ BulkIdle

\* applySeedVariables(row, variables)
InterpApply ==
    /\ svPc = "read"
    /\ svApplied' = ApplyVarsRow(InterpRow(svInput), svVariables)
    /\ svPc' = "applied"
    /\ UNCHANGED <<svInput, svVariables, serverVars, loaderVars, routeVars, runtimeVars,
                   seedVars, dbVars, osVars, envVars, bulkVars>>

NextInterp == InterpApply

SpecInterp == InitInterp /\ [][NextInterp]_vars

\* the column of the applied row
Applied(column) == LookupVar(svApplied, column)

\* what the claim says a column holds after interpolation of variable X with the
\* written text around it
Interpolated(input, variables) ==
    LET value == resolveVarByPath(variables, input.name)
    IN IF input.pre = "" /\ input.post = ""
       THEN (IF value.t = "undefined" THEN SText("") ELSE value)
       ELSE SText(input.pre
                  \o (IF value.t = "undefined" THEN "" ELSE StringText(value))
                  \o input.post)

\* C20: after applySeedVariables a string that is exactly {{vars.X}} or ${X} holds the
\* value of X with its type, a longer string holds the text with the placeholder
\* replaced by the string form of X, an undefined X gives the empty string, and the
\* two syntaxes give the same result.
C20_BothSyntaxesInterpolate ==
    svPc = "applied" =>
        /\ Applied("handlebars") = Interpolated(svInput, svVariables)
        /\ Applied("legacy") = Interpolated(svInput, svVariables)
        /\ Applied("handlebars") = Applied("legacy")

----------------------------------------------------------------------------
(* create-db: the order of its subprocesses *)

\* the subprocess before the i-th one ran to the end with exit code 0
AfterSuccess(i, kinds) ==
    /\ i > 1
    /\ dbLog[i - 1].kind \in kinds
    /\ dbLog[i - 1].exit = 0

\* the files --schema-file / --schema-dir name, in the order they are to be applied
SchemaFilesAsked ==
    IF dbOptions.schemaFile # Undef THEN <<dbOptions.schemaFile>>
    ELSE IF dbOptions.schemaDir = Undef THEN <<>>
    ELSE SchemaFilesIn(dbOptions.schemaDir)

\* the schema files psql has been run on, in order
SchemaFilesApplied ==
    LET runs == SelectSeq(dbLog, LAMBDA e : e.kind = "schema" /\ e.exit = 0)
    IN [i \in 1..Len(runs) |-> runs[i].about]

\* C21: create-db runs the readiness probe until it succeeds, then (only with --drop
\* --yes and only when the existence check reports the database) DROP DATABASE, then
\* CREATE DATABASE only when the existence check that precedes it reports no database,
\* then the schema files in order; the schema is applied when the database was just
\* created and when it already existed.
C21_CreateDbOrder ==
    dbCommand = "create-db" =>
        /\ \A i \in 1..Len(dbLog) :
              /\ dbLog[i].kind = "probe" =>
                    \A j \in 1..(i - 1) : dbLog[j].kind = "probe" /\ dbLog[j].exit # 0
              /\ dbLog[i].kind = "exists" =>
                    \/ AfterSuccess(i, {"probe"})
                    \/ dbOptions.drop /\ AfterSuccess(i, {"drop"})
                    \/ /\ dbOptions.drop
                       /\ AfterSuccess(i, {"exists"})
                       /\ dbLog[i - 1].about = ""
                       /\ AfterSuccess(i - 1, {"probe"})
              /\ dbLog[i].kind = "drop" =>
                    /\ dbOptions.drop /\ dbOptions.yes
                    /\ AfterSuccess(i, {"exists"})
                    /\ dbLog[i - 1].about = "1"
                    /\ AfterSuccess(i - 1, {"probe"})
              /\ dbLog[i].kind = "create" =>
                    /\ AfterSuccess(i, {"exists"})
                    /\ dbLog[i - 1].about = ""
              /\ dbLog[i].kind = "schema" =>
                    \/ AfterSuccess(i, {"create", "schema"})
                    \/ AfterSuccess(i, {"exists"}) /\ dbLog[i - 1].about = "1"
        /\ IsPrefix(SchemaFilesApplied, SchemaFilesAsked)
        /\ dbPc = "done" =>
              /\ SchemaFilesApplied = SchemaFilesAsked
              /\ \E i \in 1..Len(dbLog) :
                    \/ dbLog[i].kind = "create" /\ dbLog[i].exit = 0
                    \/ dbLog[i].kind = "exists" /\ dbLog[i].about = "1"
                       /\ \A j \in (i + 1)..Len(dbLog) : dbLog[j].kind = "schema"

\* create-db --drop --yes --schema-dir on a database that existed: dropped, created
\* again, and both schema files applied in sorted order
C21_Witness ==
    /\ dbCommand = "create-db"
    /\ dbPc = "done"
    /\ \E i \in 1..Len(dbLog) : dbLog[i].kind = "drop"
    /\ \E i \in 1..Len(dbLog) : dbLog[i].kind = "create"
    /\ SchemaFilesApplied = <<"a.SQL", "b.sql">>

\* create-db on a database that already exists: nothing created, the schema file applied
C21_WitnessAlreadyExists ==
    /\ dbCommand = "create-db"
    /\ dbPc = "done"
    /\ \A i \in 1..Len(dbLog) : dbLog[i].kind # "create"
    /\ SchemaFilesApplied = <<"schema.sql">>

----------------------------------------------------------------------------
(* The server with requests in flight.  A route callback is a closure over *)
(* the route definition and the shared resources its router was built      *)
(* from; it runs to its first await (the delay timer, the handler's        *)
(* promise) and goes on when the JS thread is free.                        *)

MaxRequests == 1        \* number of requests received in one run

\* routes of the tree the server is started on: one answered from `response` after a
\* delay, one answered by a handler module after a delay
RouteSlow ==
    [method |-> "GET", path |-> "/slow", handler |-> Undef,
     response |-> [defined |-> TRUE, status |-> NoNum, headers |-> {},
                   body |-> JText("literal"), bodyTemplate |-> JUndef, delayMs |-> 50]]
RouteHandled ==
    [method |-> "GET", path |-> "/netwin", handler |-> "api-data/netwin",
     response |-> [defined |-> TRUE, status |-> NoNum, headers |-> {},
                   body |-> JUndef, bodyTemplate |-> JUndef, delayMs |-> 50]]
HandlersDocSlow ==
    File("doc", 60, [api |-> ApiBlock("Primary", "/primary", "from handlers.yaml"),
                     hasRoutes |-> TRUE, routes |-> <<RouteSlow, RouteHandled>>])

RequestDisk ==
    [config |-> ConfigDocA, hasApisDir |-> TRUE,
     dirs |-> [n \in ApiDirNames |->
                 IF n = "api-data"
                 THEN Dir(TRUE, OpenApiDocA, HandlersDocSlow, AbsentHandlers, <<>>)
                 ELSE NoDir]]

\* what the module a route's `handler` names does
HandlerModule(handlerId) ==
    IF handlerId = Undef THEN NoHandlerFn ELSE [kind |-> "returns", result |-> JText("plain")]

\* the HandlerContext of the model's request, with sharedConfig.resources
ContextOf(resources) ==
    JObj(<<[k |-> "params", v |-> JObj(<<>>)],
           [k |-> "query", v |-> JObj(<<>>)],
           [k |-> "body", v |-> JNull],
           [k |-> "resources",
            v |-> JObj([i \in 1..Len(resources) |-> [k |-> resources[i], v |-> JObj(<<>>)]])],
           [k |-> "meta", v |-> JObj(<<[k |-> "requestId", v |-> JText("r1")]>>)]>>)

InitRequests ==
    /\ LoaderIdle
    /\ RouteIdle
    /\ RuntimeIdle
    /\ SeedIdle
    /\ DbIdle
    /\ OsIdle
    /\ EnvIdle
    /\ InterpIdle
    /\ BulkIdle
    /\ HOT_RELOAD_ENABLED = TRUE
    /\ VIRTUAL_APIS = <<>>
    /\ VIRTUAL_APIS_EXCLUDE = <<>>
    /\ disk = RequestDisk
    /\ clock = 0
    /\ currentState = buildAppState(disk, VIRTUAL_APIS, VIRTUAL_APIS_EXCLUDE).state
    /\ currentRouter = currentState.router
    /\ lastResourcesFingerprint = {}
    /\ srvPc = "boot"
    /\ reloadResponse = NoReloadResponse
    /\ reloadAudit = NoAudit
    /\ handlerCache = {}
    /\ rqPending = <<>>
    /\ rqLog = <<>>

RequestFrame ==
    UNCHANGED <<disk, clock, HOT_RELOAD_ENABLED, VIRTUAL_APIS, VIRTUAL_APIS_EXCLUDE,
                currentState, currentRouter, lastResourcesFingerprint, srvPc, reloadResponse,
                reloadAudit, loaderVars, routeVars, cliVars>>

\* a request as the callback holds it: the router entry and the route of its closure,
\* where it waits, and (history) the state that was current at dispatch
Pending(api, route, stage) ==
    [api |-> api, route |-> route, stage |-> stage, seen |-> currentState]

\* an answered request: the context.resources the callback built, what it sent, and
\* (history) the states current at dispatch and at the answer
AnsweredRequest(req, reply) ==
    [route |-> req.route, apiId |-> req.api.apiId, resources |-> req.api.resources,
     reply |-> reply, seen |-> req.seen, served |-> currentState]

\* faulty variant: the callback reads the shared resources of the current state
ReqCallbackReadsCurrent(req, rest) ==
    IF req.route.handler # Undef
    THEN /\ handlerCache' = handlerCache \cup {req.route.handler}
         /\ rqPending' = Append(rest, [req EXCEPT !.stage = "handler"])
         /\ UNCHANGED rqLog
    ELSE /\ rqLog' = Append(rqLog,
                            [AnsweredRequest(req, ResponseReply(req.route.response,
                                                          ContextOf(ResourceKeys(currentState.sharedResources))))
                             EXCEPT !.resources = ResourceKeys(currentState.sharedResources)])
         /\ rqPending' = rest
         /\ UNCHANGED handlerCache

\* the route callback after its delay: the context, then loadHandler and the call of
\* the handler, or the declarative answer
ReqCallback(req, rest) ==
    IF req.route.handler # Undef
    THEN /\ handlerCache' = handlerCache \cup {req.route.handler}
         /\ rqPending' = Append(rest, [req EXCEPT !.stage = "handler"])
         /\ UNCHANGED rqLog
    ELSE /\ rqLog' = Append(rqLog, AnsweredRequest(req, ResponseReply(req.route.response,
                                                               ContextOf(req.api.resources))))
         /\ rqPending' = rest
         /\ UNCHANGED handlerCache

\* the pending requests without the k-th
Without(k) == SubSeq(rqPending, 1, k - 1) \o SubSeq(rqPending, k + 1, Len(rqPending))

\* app.use((req, res, next) => currentRouter(req, res, next)) and the callback up to
\* its first await
ReqDispatch ==
    /\ srvPc = "idle"
    /\ Len(rqPending) + Len(rqLog) < MaxRequests
    /\ \E i \in 1..Len(currentRouter) :
         \E j \in 1..Len(currentRouter[i].handlers) :
            LET route == currentRouter[i].handlers[j]
            IN IF delayOf(route) > 0
               THEN /\ rqPending' = Append(rqPending, Pending(currentRouter[i], route, "delay"))
                    /\ UNCHANGED <<rqLog, handlerCache>>
               ELSE ReqCallback(Pending(currentRouter[i], route, "none"), rqPending)
    /\ RequestFrame

\* the timer of a delay fires
ReqTimer ==
    /\ srvPc = "idle"
    /\ \E k \in 1..Len(rqPending) :
         /\ rqPending[k].stage = "delay"
         /\ ReqCallback(rqPending[k], Without(k))
    /\ RequestFrame

\* the promise of a handler settles and the callback sends the result
ReqHandlerSettled ==
    /\ srvPc = "idle"
    /\ \E k \in 1..Len(rqPending) :
         /\ rqPending[k].stage = "handler"
         /\ rqLog' = Append(rqLog, AnsweredRequest(rqPending[k],
                                             HandlerReply(HandlerModule(rqPending[k].route.handler))))
         /\ rqPending' = Without(k)
    /\ UNCHANGED handlerCache
    /\ RequestFrame

\* the writes of this run: the shared resources get a second key, the routes of
\* api-data are replaced, broken or restored
WritesOfRun(d, t) ==
    { [d EXCEPT !.config = Stamp(ConfigDocB, t)] }
    \cup { [d EXCEPT !.dirs["api-data"].handlersYaml = Stamp(f, t)] :
             f \in {HandlersDocB, HandlersInvalid, HandlersDocSlow} }

\* another process rewrites a YAML file
RequestFileWrite ==
    /\ clock < MaxWrites
    /\ clock' = clock + 1
    /\ disk' \in WritesOfRun(disk, clock + 1)
    /\ UNCHANGED <<HOT_RELOAD_ENABLED, VIRTUAL_APIS, VIRTUAL_APIS_EXCLUDE, currentState,
                   currentRouter, lastResourcesFingerprint, srvPc, reloadResponse,
                   reloadAudit, handlerCache, rqPending, rqLog, loaderVars, routeVars,
                   cliVars>>

NextRequests ==
    \/ RequestFileWrite
    \/ BootWatcher
    \/ PollTick
    \/ ManualReload
    \/ ReloadFingerprint
    \/ ReqDispatch
    \/ ReqTimer
    \/ ReqHandlerSettled

SpecRequests == InitRequests /\ [][NextRequests]_vars

----------------------------------------------------------------------------
(* Claims about reloads and requests in flight *)

\* buildAppState() throws on the files as they are
TreeBroken == ~buildAppState(disk, VIRTUAL_APIS, VIRTUAL_APIS_EXCLUDE).ok

\* a step of the idle server on a tree that does not load, other than a file write
\* and a step of a request: a tick or a POST /virtual/reload whose reload fails
FailedReloadStep ==
    /\ srvPc = "idle"
    /\ TreeBroken
    /\ disk' = disk
    /\ UNCHANGED <<rqPending, rqLog>>

\* the last POST /virtual/reload failed and no file was written since
ManualReloadFailed ==
    /\ reloadResponse.sent
    /\ ~reloadResponse.reloaded
    /\ reloadAudit.disk = disk

\* the next tick of the watcher calls reloadResources
TickReloads == HOT_RELOAD_ENABLED /\ fingerprintResources(disk) # lastResourcesFingerprint

\* C22: a failed reload (watch or manual) leaves currentState, currentRouter,
\* handlerCache and lastResourcesFingerprint as they were, and as long as the files
\* stay as they are every following tick of the watcher attempts the reload again.
C22_FailedReloadChangesNothing ==
    /\ [][FailedReloadStep =>
            /\ UNCHANGED <<currentState, currentRouter, handlerCache,
                           lastResourcesFingerprint>>
            /\ srvPc' = "idle"
            /\ TickReloads => TickReloads']_vars
    /\ []((srvPc = "idle" /\ HOT_RELOAD_ENABLED /\ ManualReloadFailed) => TickReloads)

\* the route a request was matched to is a route of this state's router
RoutedBy(state, apiId, route) ==
    \E i \in 1..Len(state.router) :
        /\ state.router[i].apiId = apiId
        /\ state.apis[i].id = apiId
        /\ route \in SeqToSet(state.apis[i].handlers)

\* C23: a request is answered from the state that was current when it was
\* dispatched: the route definition and the shared resources the reply is built
\* from are those of that state, also when a reload completed in between; a request
\* dispatched after a reload is matched against the new state only.
C23_AnsweredFromDispatchState ==
    /\ \A k \in 1..Len(rqPending) :
          /\ RoutedBy(rqPending[k].seen, rqPending[k].api.apiId, rqPending[k].route)
          /\ rqPending[k].api.resources = ResourceKeys(rqPending[k].seen.sharedResources)
    /\ \A k \in 1..Len(rqLog) :
          /\ RoutedBy(rqLog[k].seen, rqLog[k].apiId, rqLog[k].route)
          /\ rqLog[k].resources = ResourceKeys(rqLog[k].seen.sharedResources)
          /\ rqLog[k].reply =
                RouteReply(rqLog[k].route, HandlerModule(rqLog[k].route.handler),
                           ContextOf(ResourceKeys(rqLog[k].seen.sharedResources)))

\* a request was answered after a reload had replaced its route and the shared
\* resources while it was waiting
C23_Witness ==
    \E k \in 1..Len(rqLog) :
        /\ rqLog[k].seen # rqLog[k].served
        /\ rqLog[k].resources # ResourceKeys(rqLog[k].served.sharedResources)
        /\ ~RoutedBy(rqLog[k].served, rqLog[k].apiId, rqLog[k].route)

----------------------------------------------------------------------------
(* Claims about the responses of a route with a handler module *)

\* the responses the route callback itself wrote
ServerWrites == SelectSeq(rtWrites, LAMBDA w : w.by = "server")

\* the handler wrote a response through ctx.res
HandlerWrote == \E i \in 1..Len(rtWrites) : rtWrites[i].by = "handler"

\* the `message` of a JSON error body
MessageOf(reply) == Member(reply.body, "message")

\* C24: for a route with a handler the server writes at most one response: none
\* when the handler has sent one (also when it then throws), 500 'Handler returned
\* no response' when the handler returns undefined without sending, 500 'Handler
\* execution failed' when the handler or the loading of its module throws before
\* headers are sent.
C24_AtMostOneResponse ==
    (rtPc = "replied" /\ rtRoute.handler # Undef) =>
        /\ Len(ServerWrites) <= 1
        /\ Len(rtWrites) <= 1
        /\ HandlerWrote => ServerWrites = <<>>
        /\ (rtHandlerFn.kind = "returns" /\ rtHandlerFn.result.t = "undef") =>
              /\ Len(ServerWrites) = 1
              /\ ServerWrites[1].reply.status = 500
              /\ MessageOf(ServerWrites[1].reply) = JText("Handler returned no response")
        /\ rtHandlerFn.kind \in {"throws", "not-found"} =>
              /\ Len(ServerWrites) = 1
              /\ ServerWrites[1].reply.status = 500
              /\ MessageOf(ServerWrites[1].reply) = JText("Handler execution failed")
        /\ rtHandlerFn.kind = "sends-throws" => ServerWrites = <<>>

\* a handler sent its response and then threw: the only response is the handler's
C24_Witness ==
    /\ rtPc = "replied"
    /\ rtRoute.handler # Undef
    /\ rtHandlerFn.kind = "sends-throws"
    /\ HandlerWrote
    /\ Len(rtWrites) = 1

----------------------------------------------------------------------------
(* shell-virtual postgres seed-yaml: refs *)

\* a row with two refs, and operations whose where and set hold refs
RowL1 == <<Entry("debit", SRef("Account", <<Entry("number", SNum("100"))>>, "number")),
           Entry("memo", SText("opening")),
           Entry("credit", SRef("Party", <<Entry("code", SText("P1"))>>, Undef))>>
OpUpdateRefs ==
    Operation("update", "Account", <<>>, <<>>,
              TRUE, <<Entry("party_id", SRef("Party", <<Entry("code", SText("P1"))>>, Undef))>>,
              TRUE, <<Entry("owner_id", SRef("Party", <<Entry("code", SText("P2"))>>, "code")),
                      Entry("number", SNum("100"))>>)
OpDeleteRef ==
    Operation("delete", "Account", <<>>, <<>>,
              TRUE, <<Entry("party_id", SRef("Party", <<Entry("code", SText("P2"))>>, Undef))>>,
              FALSE, <<>>)

RefSeedFiles ==
    { [isNull |-> FALSE, variables |-> <<Entry("tenant", SText("acme"))>>,
       tables |-> <<Table("Party", Undef, <<"code">>, <<RowP1>>),
                    Table("Account", "insert", <<>>, <<RowA1>>),
                    Table("Ledger", Undef, <<>>, <<RowL1>>)>>,
       operations |-> <<OpUpdateRefs, OpDeleteRef>>, databases |-> <<>>],
      [isNull |-> FALSE, variables |-> <<Entry("tenant", SText("acme"))>>,
       tables |-> <<Table("Account", Undef, <<>>, <<RowA1, RowA1>>)>>,
       operations |-> <<OpInsert, OpDeleteRef, OpMerge>>, databases |-> <<>>],
      [isNull |-> FALSE, variables |-> <<Entry("tenant", SText("acme"))>>,
       tables |-> <<>>, operations |-> <<>>,
       databases |-> <<Database("api_wallet", Undef, Undef, <<>>,
                                <<Table("Party", Undef, <<>>, <<RowP2>>),
                                  Table("Ledger", Undef, <<>>, <<RowL1>>)>>,
                                <<OpUpdateRefs>>)>>] }

InitSeedRefs ==
    /\ ServerIdle
    /\ LoaderIdle
    /\ RouteIdle
    /\ RuntimeIdle
    /\ DbIdle
    /\ OsIdle
    /\ EnvIdle
    /\ InterpIdle
    /\ BulkIdle
    /\ sdSeed \in RefSeedFiles
    /\ sdDb \in {"postgres"}
    /\ sdFlags \in {NoFlags}
    /\ sdConfigEnv \in SeedConfigEnvs
    /\ sdCursor = 1
    /\ sdBound = <<>>
    /\ sdLog = <<>>
    /\ sdExitCode = 0
    /\ sdError = Undef
    /\ sdPc = "running"

SpecSeedRefs == InitSeedRefs /\ [][NextSeed]_vars

\* the refs resolveSeedRow resolves for the statement of a step, in the order it
\* awaits them: the row of an insert, where then set of an update, where of a delete
StatementRefs(step) == RefsOf(step.row) \o RefsOf(step.where) \o RefsOf(step.set)

IsStatement(kind) == kind \in {"insert", "update", "delete"}

\* the values the SELECTs logged at positions from..(from + n - 1) resolved to
ResolvedBy(from, n) == [k \in 1..n |-> RefValue(trim(sdLog[from + k - 1].out))]

\* the statement logged at position i comes right after the SELECTs of its own refs,
\* one per ref and in their order, each with an output, and is built from their values
StatementAfterItsSelects(i) ==
    LET refs == StatementRefs(SeedSteps[i])
        n == Len(refs)
    IN /\ i > n
       /\ \A k \in 1..n :
            LET s == sdLog[i - n + k - 1]
            IN /\ s.kind = "select"
               /\ s.sql = RefSelectSql(refs[k])
               /\ s.at = sdLog[i].at
               /\ s.db = sdLog[i].db
               /\ s.runtime = sdLog[i].runtime
               /\ s.exit = 0
               /\ trim(s.out) # ""
       /\ i - n > 1 => IsStatement(sdLog[i - n - 1].kind)
       /\ sdLog[i].sql = StepSql(SeedSteps[i], ResolvedBy(i - n, n)).sql

\* the SELECT logged at position i was spawned when every earlier subprocess had
\* exited with code 0; without output it is the last subprocess of the run
SelectInItsPlace(i) ==
    /\ \A j \in 1..(i - 1) : sdLog[j].exit = 0
    /\ \E j \in (i + 1)..Len(SeedSteps) :
          /\ IsStatement(SeedSteps[j].k)
          /\ SeedSteps[j].at = sdLog[i].at
          /\ j - i <= Len(StatementRefs(SeedSteps[j]))
    /\ sdLog[i].exit = NoNum => i = Len(sdLog) /\ sdPc = "waiting"
    /\ (sdLog[i].exit = 0 /\ trim(sdLog[i].out) = "") =>
          /\ i = Len(sdLog)
          /\ sdPc = "failed"
          /\ sdExitCode = 1
          /\ sdError = "Seed ref not found"

\* C25: in seed-yaml every ref of a row, or of the where / set of an update or
\* delete, is resolved by a SELECT spawned after every earlier subprocess of the run
\* exited with code 0 and followed by nothing but the other SELECTs of the same row
\* and then the row's statement, which is built from the values the SELECTs printed;
\* a SELECT without output ends the command with 'Seed ref not found' and exit code
\* 1, and no statement is spawned after it.
C25_RefsResolvedBeforeStatement ==
    sdPc # "off" =>
        \A i \in 1..Len(sdLog) :
            /\ sdLog[i].kind = SeedSteps[i].k
            /\ sdLog[i].at = SeedSteps[i].at
            /\ IsStatement(sdLog[i].kind) => StatementAfterItsSelects(i)
            /\ sdLog[i].kind = "select" => SelectInItsPlace(i)

\* the Account row was inserted with the party_id its SELECT found for the Party row
\* inserted earlier in the same file, the Ledger row with the values of its two
\* SELECTs, and the SELECT of the update's where then came back without output
C25_Witness ==
    /\ sdPc = "failed"
    /\ sdError = "Seed ref not found"
    /\ Len(sdLog) = 7
    /\ sdLog[1].sql = "INSERT INTO \"Party\" (\"code\", \"name\") VALUES ('P1', 'acme') ON CONFLICT (\"code\") DO UPDATE SET \"name\" = EXCLUDED.\"name\";"
    /\ sdLog[2].sql = "SELECT \"id\" FROM \"Party\" WHERE \"code\" = 'P1' LIMIT 1;"
    /\ sdLog[2].out = "42\n"
    /\ sdLog[3].sql = "INSERT INTO \"Account\" (\"number\", \"party_id\") VALUES (100, 42);"
    /\ sdLog[4].kind = "select" /\ sdLog[5].kind = "select"
    /\ sdLog[4].out = " P-1\n"
    /\ sdLog[6].kind = "insert"
    /\ sdLog[7].kind = "select"
    /\ sdLog[7].out = "\n"
    /\ sdLog[7].exit = 0
    /\ SeedSteps[9].k = "update"

\* a seed file ran to its end: the update with refs in where and in set and the
\* delete with a ref in where were both issued
C25_WitnessOperations ==
    /\ sdPc = "done"
    /\ Len(sdLog) = 11
    /\ sdLog[9].kind = "update"
    /\ sdLog[11].kind = "delete"
    /\ sdLog[9].sql = "UPDATE \"Account\" SET \"owner_id\" = 'P-1', \"number\" = 100 WHERE \"party_id\" = 42;"

====
